---- MODULE Spec2Model ----
(***************************************************************************)
(* A model of the WireGuard peer / IP-allocation subsystem of vpn-indexer: *)
(* the local tables wg_peer, wg_ip_pool and client, the IP allocator, the  *)
(* remote peer ledger (S3) with its conditional writes, and the register   *)
(* and delete handlers that tie them together.                             *)
(***************************************************************************)
EXTENDS Integers, Sequences, FiniteSets, TLC

(***************************************************************************)
(* Bounds of the model and constants of the program.                       *)
(***************************************************************************)
NumPubkeys == 2
MaxAllocs == 3
NumProcs == 2
MaxRequests == 3
MaxS3Calls == 4
MaxEvents == 3
MaxSyncPeers == 4
MaxSeqAllocs == 255
MaxTxEvents == 1
MaxCursorAdds == 60
MaxTimerFires == 3
MaxStatus == 3
MaxRaceRequests == 4
NumLedgerCalls == 3
TxHint == 100
MaxCreateFails == 1

MinOctet == 2
MaxOctet == 254
maxS3Retries == 3
WGMaxDevices == 1

Regions == {"r1", "r2"}
\* the regions whose pool the allocator is asked for: cfg.Vpn.Region
PoolRegions == {"r1"}
Assets == {"a1", "a2"}
Pubkeys == 1..NumPubkeys
Procs == 1..NumProcs

(***************************************************************************)
(* IP strings.  An IP is the sequence of its dot-separated parts           *)
(* (strings.Split(ip, ".")); a part is either a decimal number, which      *)
(* strconv.Atoi parses, or text, which it rejects.                         *)
(***************************************************************************)
Num(n) == <<"num", n>>
Txt == <<"txt", 0>>

\* d.config.Vpn.WGSubnet, defaulting to "10.8.0"
Subnet == <<Num(10), Num(8), Num(0)>>

\* fmt.Sprintf("%s.%d", subnet, currentIP)
FormatIP(octet) == Append(Subnet, Num(octet))

\* len(parts) == 4 and strconv.Atoi(parts[3]) succeeds
HasOctet(ip) == Len(ip) = 4 /\ ip[4][1] = "num"

\* the value strconv.Atoi(parts[3]) returns
OctetOf(ip) == ip[4][2]

\* final octets given to the operations that take an IP from the caller
OctetInputs == {1, 2, 254, 255}

\* IP strings given by callers: well formed ones, one of three parts only
\* ("10.8.0"), one of five ("10.8.0.2.2") and one whose final part is not
\* a number ("10.8.0.abc")
IPInputs ==
    {FormatIP(o) : o \in OctetInputs}
        \cup {Subnet, Append(FormatIP(MinOctet), Num(MinOctet)), Append(Subnet, Txt)}

\* IP strings found in peer rows: the ends of the pool, the reserved 0 and
\* 255, and one whose final part is not a number
PeerIPInputs ==
    {FormatIP(o) : o \in (OctetInputs \ {1}) \cup {0}} \cup {Append(Subnet, Txt)}

VARIABLES
    client,     \* table client: rows [assetName, region]
    wgPeer,     \* table wg_peer: rows [assetName, pubkey, assignedIP]
    wgIPPool,   \* table wg_ip_pool: rows [region, nextIP]
    nAllocs,    \* how many times AllocateIP has been called
    last,       \* the most recent call of the database API, what it returned
                \* and, for AllocateIP, the pool table it was called on
    scan,       \* the locals of one run of AllocateIP's scan loop
    s3,         \* the remote peer ledger: for each asset name its object
    wg,         \* the peers the peer-management endpoint holds
    pr,         \* for each request-handling goroutine, where it is and its locals
    nReqs,      \* how many requests have been started
    ref,        \* tables reference, reference_price and reference_region
    chain,      \* the chain events delivered to the indexer, and a replay
    boot,       \* where the startup of main is, and its locals
    ix          \* the Indexer object, the cursor table and the callbacks in flight

dbVars == <<client, wgPeer, wgIPPool>>
apiVars == <<nAllocs, last>>
reqVars == <<s3, wg, pr, nReqs>>
envVars == <<ref, chain, boot, ix>>
nonDB == <<scan, s3, wg, pr, nReqs, envVars>>
vars == <<client, wgPeer, wgIPPool, nAllocs, last, scan, s3, wg, pr, nReqs,
          ref, chain, boot, ix>>

NoCall == [op |-> "none"]
NoScan == [pc |-> "idle"]

\* a key of the bucket that holds no object
NoObject == [exists |-> FALSE, peers |-> <<>>, etag |-> 0]

\* a goroutine that handles no request
Idle == [pc |-> "idle", op |-> "none", asset |-> "none", pubkey |-> 0,
         ip |-> <<>>, attempt |-> 0, file |-> NoObject, err |-> "nil",
         trace |-> <<>>, status |-> 0]

\* no reference data stored
NoReference == [rows |-> {}, prices |-> <<>>, regions |-> <<>>]

\* no chain event delivered
NoChain == [log |-> <<>>, pc |-> "sync", from |-> 0, i |-> 0,
            snapClient |-> {}, snapRef |-> NoReference, refArgs |-> <<>>]

\* main not started
NoBoot == [pc |-> "idle", protocol |-> "none", start |-> {}, hasData |-> "unknown",
           ran |-> FALSE, reads |-> 0, keys |-> <<>>, asset |-> "none",
           peers |-> <<>>, loaded |-> {}, rebuilt |-> <<>>, rebuildErr |-> "none",
           active |-> {}, n |-> 0, todo |-> <<>>, pushes |-> <<>>,
           failCount |-> 0, successCount |-> 0, syncErr |-> "none",
           skipped |-> {}]

\* the indexer and the startup left out
\* the Indexer before Start, an empty cursor table, no callback in flight
NoIx == [pc |-> "idle", outs |-> <<>>, trace |-> <<>>, generated |-> <<>>,
         err |-> "none", nEvents |-> 0,
         tipReached |-> FALSE, timer |-> "none", cb |-> "idle", us |-> "idle",
         logs |-> 0, arms |-> 0, nStatus |-> 0, tipDone |-> FALSE,
         cursor |-> <<>>, points |-> <<>>, newest |-> <<>>, nAdds |-> 0,
         pruned |-> FALSE,
         blob |-> <<>>, decoded |-> <<>>,
         intersect |-> <<>>, cfg |-> <<>>]

NoEnv ==
    /\ ref = NoReference
    /\ chain = NoChain
    /\ boot = NoBoot
    /\ ix = NoIx

\* the variables of the handlers where no request was ever made
NoRequests ==
    /\ s3 = [a \in Assets |-> NoObject]
    /\ wg = {}
    /\ pr = [p \in Procs |-> Idle]
    /\ nReqs = 0

(***************************************************************************)
(* Table client (asset_name is a unique index) and Database.AddClient.     *)
(***************************************************************************)
\* faulty variant: the insert without the conflict clause
InsertClientRow(rows, row) == rows \cup {row}

\* INSERT ... ON CONFLICT (asset_name) DO UPDATE SET all columns
UpsertClientRow(rows, row) ==
    {c \in rows : c.assetName # row.assetName} \cup {row}

\* the upsert of a row of which only the columns the allocator reads are kept
UpsertClient(rows, assetName, region) ==
    UpsertClientRow(rows, [assetName |-> assetName, region |-> region])

AddClient(assetName, region) ==
    /\ client' = UpsertClient(client, assetName, region)
    /\ last' = [op |-> "AddClient"]
    /\ UNCHANGED <<wgPeer, wgIPPool, nAllocs>>
    /\ UNCHANGED nonDB

(***************************************************************************)
(* Table wg_peer (pubkey is a unique index).                               *)
(***************************************************************************)
PubkeyExists(rows, pubkey) == \E r \in rows : r.pubkey = pubkey

\* faulty variant: the insert without the unique index on pubkey
InsertPeerNoUnique(rows, assetName, pubkey, assignedIP) ==
    rows \cup {[assetName |-> assetName, pubkey |-> pubkey,
                assignedIP |-> assignedIP]}

\* the rows after d.db.Create(&peer); a row whose pubkey exists is rejected
\* by the unique index and the table stays as it is
InsertPeer(rows, assetName, pubkey, assignedIP) ==
    IF PubkeyExists(rows, pubkey)
    THEN rows
    ELSE rows \cup {[assetName |-> assetName, pubkey |-> pubkey,
                     assignedIP |-> assignedIP]}

\* the error d.db.Create(&peer) returns
InsertPeerErr(rows, pubkey) ==
    IF PubkeyExists(rows, pubkey) THEN "UniqueViolation" ELSE "nil"

AddWGPeer(assetName, pubkey, assignedIP) ==
    /\ wgPeer' = InsertPeer(wgPeer, assetName, pubkey, assignedIP)
    /\ last' = [op |-> "AddWGPeer", err |-> InsertPeerErr(wgPeer, pubkey)]
    /\ UNCHANGED <<client, wgIPPool, nAllocs>>
    /\ UNCHANGED nonDB

\* DELETE FROM wg_peer WHERE pubkey = ?
RemovePeerRow(rows, pubkey) == {r \in rows : r.pubkey # pubkey}

DeleteWGPeer(pubkey) ==
    /\ wgPeer' = RemovePeerRow(wgPeer, pubkey)
    /\ last' = [op |-> "DeleteWGPeer"]
    /\ UNCHANGED <<client, wgIPPool, nAllocs>>
    /\ UNCHANGED nonDB

(***************************************************************************)
(* The IP allocator.                                                       *)
(***************************************************************************)
\* faulty variant: the IPs of every peer, whatever the region of its client
RegionIPsAnyRegion(peers, clients, region) ==
    {r.assignedIP : r \in peers}

\* wg_peer JOIN client ON asset_name WHERE client.region = region,
\* plucking wg_peer.assigned_ip
RegionIPs(peers, clients, region) ==
    {r.assignedIP : r \in {x \in peers :
        \E c \in clients : c.assetName = x.assetName /\ c.region = region}}

\* usedOctets: the final octets of the plucked IPs that parse
UsedOctets(peers, clients, region) ==
    {OctetOf(ip) : ip \in {x \in RegionIPs(peers, clients, region) : HasOctet(x)}}

HasPool(pools, region) == \E p \in pools : p.region = region
PoolRow(pools, region) == CHOOSE p \in pools : p.region = region

\* tx.Save(&pool) / d.db.Save(&WGIPPool{...}): insert or replace by primary key
SavePool(pools, region, nextIP) ==
    {p \in pools : p.region # region} \cup {[region |-> region, nextIP |-> nextIP]}

\* faulty variant: the wrap from 254 going to 0 instead of 2
NextOctetWrapZero(currentIP) ==
    IF currentIP + 1 > MaxOctet THEN 0 ELSE currentIP + 1

\* faulty variant: no wrap at the end of the pool
NextOctetNoWrap(currentIP) == currentIP + 1

\* currentIP++ ; if currentIP > 254 { currentIP = 2 }
NextOctet(currentIP) ==
    IF currentIP + 1 > MaxOctet THEN MinOctet ELSE currentIP + 1

\* the scan loop of AllocateIP, from currentIP, having started at startIP
RECURSIVE ScanLoop(_, _, _)
ScanLoop(currentIP, startIP, usedOctets) ==
    IF currentIP \notin usedOctets
    THEN [found |-> TRUE, currentIP |-> currentIP]
    ELSE IF NextOctet(currentIP) = startIP
         THEN [found |-> FALSE, currentIP |-> NextOctet(currentIP)]
         ELSE ScanLoop(NextOctet(currentIP), startIP, usedOctets)

\* faulty variant: the scan starting at 2 whatever the hint is
StartIPIgnoresHint(pools, region) == MinOctet

\* pool.NextIP after the get-or-create of the region's pool row
StartIP(pools, region) ==
    IF HasPool(pools, region) THEN PoolRow(pools, region).nextIP ELSE MinOctet

\* faulty variant: the advanced hint is not saved
AllocateIPTxNoSave(pools, peers, clients, region) ==
    LET startIP == StartIP(pools, region)
        found == ScanLoop(startIP, startIP, UsedOctets(peers, clients, region))
    IN  IF found.found
        THEN [pools |-> SavePool(pools, region, startIP),
              err |-> "nil", ip |-> FormatIP(found.currentIP)]
        ELSE [pools |-> pools, err |-> "ErrIPPoolExhausted", ip |-> <<>>]

\* the transaction of AllocateIP on the three tables: the pool table it
\* leaves, the error and the IP it returns
AllocateIPTx(pools, peers, clients, region) ==
    LET startIP == StartIP(pools, region)
        found == ScanLoop(startIP, startIP, UsedOctets(peers, clients, region))
    IN  IF found.found
        THEN [pools |-> SavePool(pools, region, NextOctet(found.currentIP)),
              err |-> "nil", ip |-> FormatIP(found.currentIP)]
        ELSE [pools |-> pools,       \* the transaction is rolled back
              err |-> "ErrIPPoolExhausted", ip |-> <<>>]

\* whether the immediately preceding call was a DeallocateIP of this region
\* that returned no error, and the octet it was given
AfterDealloc(region) ==
    IF last.op = "DeallocateIP" /\ last.region = region /\ last.err = "nil"
    THEN last.octet ELSE 0

\* AllocateIP(region), the max-th call at most
AllocateIPCall(region, max) ==
    LET tx == AllocateIPTx(wgIPPool, wgPeer, client, region)
    IN  /\ nAllocs < max
        /\ nAllocs' = nAllocs + 1
        /\ wgIPPool' = tx.pools
        /\ last' = [op |-> "AllocateIP", region |-> region,
                    pools |-> wgIPPool,
                    afterDealloc |-> AfterDealloc(region),
                    err |-> tx.err, ip |-> tx.ip]
        /\ UNCHANGED <<client, wgPeer>>
        /\ UNCHANGED nonDB

AllocateIP(region) == AllocateIPCall(region, MaxAllocs)

\* the largest element of a non-empty set of integers
Max(S) == CHOOSE m \in S : \A x \in S : x <= m

\* maxOctet starts at 0 and is raised by every parsed octet above it
MaxOctetOf(octets) == Max(octets \cup {0})

\* faulty variant: max + 1 without the wrap
RebuildNextIPNoWrap(octets) ==
    IF MaxOctetOf(octets) > 0 THEN MaxOctetOf(octets) + 1 ELSE MinOctet

RebuildNextIP(octets) ==
    IF MaxOctetOf(octets) > 0
    THEN IF MaxOctetOf(octets) + 1 > MaxOctet THEN MinOctet
         ELSE MaxOctetOf(octets) + 1
    ELSE MinOctet

\* faulty variant: a pool row that exists keeps its hint
RebuildPoolsKeepHint(pools, peers, clients, region) ==
    IF HasPool(pools, region) THEN pools
    ELSE SavePool(pools, region, RebuildNextIP(UsedOctets(peers, clients, region)))

\* the pool table RebuildIPPool leaves
RebuildPools(pools, peers, clients, region) ==
    SavePool(pools, region, RebuildNextIP(UsedOctets(peers, clients, region)))

RebuildIPPool(region) ==
    /\ wgIPPool' = RebuildPools(wgIPPool, wgPeer, client, region)
    /\ last' = [op |-> "RebuildIPPool", region |-> region]
    /\ UNCHANGED <<client, wgPeer, nAllocs>>
    /\ UNCHANGED nonDB

\* faulty variant: the octet is not checked against the range of the pool
DeallocErrNoRange(ip) ==
    IF Len(ip) # 4 THEN "InvalidIPFormat"
    ELSE IF ip[4][1] # "num" THEN "InvalidIPOctet"
    ELSE "nil"

\* the error DeallocateIP returns for ip (no store error)
DeallocErr(ip) ==
    IF Len(ip) # 4 THEN "InvalidIPFormat"
    ELSE IF ip[4][1] # "num" THEN "InvalidIPOctet"
    ELSE IF OctetOf(ip) < MinOctet \/ OctetOf(ip) > MaxOctet THEN "OutOfRange"
    ELSE "nil"

\* UPDATE wg_ip_pool SET next_ip = octet WHERE region = ?
\* (no row of the region: nothing is updated and no error is returned)
UpdatePool(pools, region, octet) ==
    {IF p.region = region THEN [p EXCEPT !.nextIP = octet] ELSE p : p \in pools}

\* the pool table DeallocateIP leaves
DeallocatePools(pools, region, ip) ==
    IF DeallocErr(ip) = "nil" THEN UpdatePool(pools, region, OctetOf(ip)) ELSE pools

DeallocateIP(region, ip) ==
    /\ wgIPPool' = DeallocatePools(wgIPPool, region, ip)
    /\ last' = [op |-> "DeallocateIP", region |-> region, ip |-> ip,
                octet |-> IF DeallocErr(ip) = "nil" THEN OctetOf(ip) ELSE 0,
                err |-> DeallocErr(ip)]
    /\ UNCHANGED <<client, wgPeer, nAllocs>>
    /\ UNCHANGED nonDB

(***************************************************************************)
(* The database API called in any order.                                   *)
(***************************************************************************)
InitDB ==
    /\ client = {}
    /\ wgPeer = {}
    /\ wgIPPool = {}
    /\ nAllocs = 0
    /\ last = NoCall
    /\ scan = NoScan
    /\ NoRequests
    /\ NoEnv

NextDB ==
    \/ \E a \in Assets, r \in Regions : AddClient(a, r)
    \/ \E a \in Assets, k \in Pubkeys, ip \in PeerIPInputs : AddWGPeer(a, k, ip)
    \/ \E k \in Pubkeys : DeleteWGPeer(k)
    \/ \E r \in PoolRegions : AllocateIP(r)
    \/ \E r \in PoolRegions : RebuildIPPool(r)
    \/ \E r \in PoolRegions, ip \in IPInputs : DeallocateIP(r, ip)

SpecDB == InitDB /\ [][NextDB]_vars

(***************************************************************************)
(* The allocator called on two regions in any order.                       *)
(***************************************************************************)
\* IPs the two-region runs register and release: the two ends of the pool
RegionIPInputs == {FormatIP(MinOctet), FormatIP(MaxOctet)}

NextRegions ==
    \/ \E a \in Assets, r \in Regions : AddClient(a, r)
    \/ \E a \in Assets, k \in Pubkeys, ip \in RegionIPInputs : AddWGPeer(a, k, ip)
    \/ \E k \in Pubkeys : DeleteWGPeer(k)
    \/ \E r \in Regions : AllocateIP(r)
    \/ \E r \in Regions : RebuildIPPool(r)
    \/ \E r \in Regions, ip \in RegionIPInputs : DeallocateIP(r, ip)

SpecRegions == InitDB /\ [][NextRegions]_vars

(***************************************************************************)
(* The scan loop of AllocateIP, one iteration at a time.                   *)
(***************************************************************************)
AllOctets == MinOctet..MaxOctet

\* the sets of used octets the loop is run on: every octet of the pool
\* held, with and without the reserved ones, and all but one held
UsedInputs ==
    {AllOctets, 0..255, AllOctets \ {MinOctet}, AllOctets \ {MaxOctet}}

\* startIP := pool.NextIP; currentIP := startIP; found := false
InitScan ==
    /\ client = {}
    /\ wgPeer = {}
    /\ wgIPPool = {}
    /\ nAllocs = 0
    /\ last = NoCall
    /\ NoRequests
    /\ NoEnv
    /\ scan \in {[pc |-> "loop", startIP |-> h, currentIP |-> h,
                  usedOctets |-> u, found |-> FALSE, iterations |-> 0,
                  err |-> "nil"] :
                    h \in AllOctets, u \in UsedInputs}

\* if !usedOctets[currentIP] { found = true; break }
ScanFound ==
    /\ scan.pc = "loop"
    /\ scan.currentIP \notin scan.usedOctets
    /\ scan' = [scan EXCEPT !.pc = "done", !.found = TRUE,
                            !.iterations = @ + 1]
    /\ UNCHANGED <<dbVars, apiVars, reqVars, envVars>>

\* currentIP++, wrapped; the loop goes on while currentIP # startIP
ScanAdvance ==
    /\ scan.pc = "loop"
    /\ scan.currentIP \in scan.usedOctets
    /\ NextOctet(scan.currentIP) # scan.startIP
    /\ scan' = [scan EXCEPT !.currentIP = NextOctet(scan.currentIP),
                            !.iterations = @ + 1]
    /\ UNCHANGED <<dbVars, apiVars, reqVars, envVars>>

\* if currentIP == startIP { break }, and then return ErrIPPoolExhausted
ScanExhausted ==
    /\ scan.pc = "loop"
    /\ scan.currentIP \in scan.usedOctets
    /\ NextOctet(scan.currentIP) = scan.startIP
    /\ scan' = [scan EXCEPT !.pc = "done",
                            !.currentIP = NextOctet(scan.currentIP),
                            !.iterations = @ + 1,
                            !.err = "ErrIPPoolExhausted"]
    /\ UNCHANGED <<dbVars, apiVars, reqVars, envVars>>

NextScan == ScanFound \/ ScanAdvance \/ ScanExhausted

SpecScan == InitScan /\ [][NextScan]_vars

(***************************************************************************)
(* The remote peer ledger: one object per asset name, written with         *)
(* conditional puts.  The entity tag of an object is modelled as the       *)
(* number of puts the key has taken, so every put changes it.              *)
(***************************************************************************)
\* cfg.Vpn.Region of this instance
cfgRegion == "r1"

\* one entry of a request's call log: the call made and the IP the request
\* holds when it makes it
Event(name, ip) == [ev |-> name, ip |-> ip]

Log(p, name) == Append(pr[p].trace, Event(name, pr[p].ip))

\* "add or update peer in slice": the peer list SavePeerToS3 uploads
SavePeers(peers, pubkey, assignedIP) ==
    IF \E i \in 1..Len(peers) : peers[i].pubkey = pubkey
    THEN [i \in 1..Len(peers) |->
            IF peers[i].pubkey = pubkey
            THEN [pubkey |-> pubkey, assignedIP |-> assignedIP]
            ELSE peers[i]]
    ELSE Append(peers, [pubkey |-> pubkey, assignedIP |-> assignedIP])

\* if p.Pubkey != pubkey { newPeers = append(newPeers, p) }
KeepOthers(x, pubkey) == x.pubkey # pubkey

\* "remove peer by pubkey": the peer list RemovePeerFromS3 uploads
RemovePeers(peers, pubkey) ==
    SelectSeq(peers, LAMBDA x : KeepOthers(x, pubkey))

\* faulty variant: the put made without a precondition
PutAllowedAlways(obj, file) == TRUE

\* the precondition of the put: If-None-Match "*" for a file that was not
\* found at load, If-Match with the loaded entity tag otherwise
PutAllowed(obj, file) ==
    IF file.exists
    THEN obj.exists /\ obj.etag = file.etag
    ELSE ~obj.exists

\* faulty variant: the object deleted when its last peer is removed
PutObjectOrDelete(obj, peers) ==
    IF peers = <<>> THEN NoObject
    ELSE [exists |-> TRUE, peers |-> peers, etag |-> obj.etag + 1]

\* the object a successful PutObject leaves under the key; removing the last
\* peer uploads a file with an empty peer list
PutObject(obj, peers) ==
    [exists |-> TRUE, peers |-> peers, etag |-> obj.etag + 1]

IsSave(op) == op \in {"register", "save"}

\* faulty variant: a failed registration answered without the deallocation
AfterS3NoCompensation(op, err) ==
    IF op = "register" THEN (IF err = "nil" THEN "reg_addpeer" ELSE "done")
    ELSE IF op = "delete" THEN (IF err = "nil" THEN "del_dbdelete" ELSE "done")
    ELSE "done"

\* faulty variant: the local insert made whatever the ledger write returned
AfterS3CacheAnyway(op, err) ==
    IF op = "register" THEN "reg_addpeer"
    ELSE IF op = "delete" THEN (IF err = "nil" THEN "del_dbdelete" ELSE "done")
    ELSE "done"

\* faulty variant: the local delete made whatever the ledger removal returned
AfterS3DeleteAnyway(op, err) ==
    IF op = "register" THEN (IF err = "nil" THEN "reg_addpeer" ELSE "reg_dealloc")
    ELSE IF op = "delete" THEN "del_dbdelete"
    ELSE "done"

\* where the caller goes on when the ledger operation returns err
AfterS3(op, err) ==
    IF op = "register" THEN (IF err = "nil" THEN "reg_addpeer" ELSE "reg_dealloc")
    ELSE IF op = "delete" THEN (IF err = "nil" THEN "del_dbdelete" ELSE "done")
    ELSE "done"

\* the ledger operation returns err to its caller; a failed delete answers 500
S3Return(p, err, event) ==
    pr' = [pr EXCEPT ![p].pc = AfterS3(pr[p].op, err),
                     ![p].err = err,
                     ![p].trace = Log(p, event),
                     ![p].status = IF pr[p].op = "delete" /\ err # "nil"
                                   THEN 500 ELSE @]

\* loadPeerFileFromS3 succeeds: the object and its entity tag, or nil
\* RemovePeerFromS3 returns nil when there is no file
S3Load(p) ==
    /\ pr[p].pc = "s3_load"
    /\ IF ~IsSave(pr[p].op) /\ ~s3[pr[p].asset].exists
       THEN S3Return(p, "nil", "S3LoadNone")
       ELSE pr' = [pr EXCEPT ![p].pc = "s3_put",
                             ![p].file = s3[pr[p].asset],
                             ![p].trace = Log(p, "S3Load")]
    /\ UNCHANGED <<dbVars, apiVars, scan, envVars, s3, wg, nReqs>>

\* loadPeerFileFromS3 fails with an error other than not-found
S3LoadError(p) ==
    /\ pr[p].pc = "s3_load"
    /\ S3Return(p, "LoadError", "S3LoadError")
    /\ UNCHANGED <<dbVars, apiVars, scan, envVars, s3, wg, nReqs>>

\* the peer list this operation uploads, from the copy it loaded
Upload(p) ==
    IF IsSave(pr[p].op)
    THEN SavePeers(pr[p].file.peers, pr[p].pubkey, pr[p].ip)
    ELSE RemovePeers(pr[p].file.peers, pr[p].pubkey)

\* svc.PutObject succeeds
S3PutOk(p) ==
    /\ pr[p].pc = "s3_put"
    /\ PutAllowed(s3[pr[p].asset], pr[p].file)
    /\ s3' = [s3 EXCEPT ![pr[p].asset] = PutObject(@, Upload(p))]
    /\ S3Return(p, "nil", "S3PutOk")
    /\ UNCHANGED <<dbVars, apiVars, scan, envVars, wg, nReqs>>

\* faulty variant: one attempt more than maxS3Retries
RetryAllowedOneMore(attempt) == attempt <= maxS3Retries

\* the loop condition attempt < maxS3Retries
RetryAllowed(attempt) == attempt < maxS3Retries

\* svc.PutObject answers PreconditionFailed / ConditionalRequestConflict:
\* continue, that is attempt++ and, while attempt < maxS3Retries, a reload
S3PutConflict(p) ==
    /\ pr[p].pc = "s3_put"
    /\ ~PutAllowed(s3[pr[p].asset], pr[p].file)
    /\ IF RetryAllowed(pr[p].attempt + 1)
       THEN pr' = [pr EXCEPT ![p].pc = "s3_load",
                             ![p].attempt = @ + 1,
                             ![p].trace = Log(p, "S3PutConflict")]
       ELSE pr' = [pr EXCEPT ![p].pc = AfterS3(pr[p].op, "RetriesExhausted"),
                             ![p].attempt = @ + 1,
                             ![p].err = "RetriesExhausted",
                             ![p].trace = Log(p, "S3PutConflict"),
                             ![p].status = IF pr[p].op = "delete"
                                           THEN 500 ELSE @]
    /\ UNCHANGED <<dbVars, apiVars, scan, envVars, s3, wg, nReqs>>

\* svc.PutObject fails with another error and has written nothing
S3PutError(p) ==
    /\ pr[p].pc = "s3_put"
    /\ S3Return(p, "PutError", "S3PutError")
    /\ UNCHANGED <<dbVars, apiVars, scan, envVars, s3, wg, nReqs>>

S3Step(p) ==
    S3Load(p) \/ S3LoadError(p) \/ S3PutOk(p) \/ S3PutConflict(p) \/ S3PutError(p)

(***************************************************************************)
(* SavePeerToS3 and RemovePeerFromS3 called concurrently.                  *)
(***************************************************************************)
\* the IPs the callers of SavePeerToS3 pass
SaveIPs == {FormatIP(2), FormatIP(3)}

Begin(p, op, asset, pubkey, ip, pc, max) ==
    /\ pr[p].pc \in {"idle", "done"}
    /\ nReqs < max
    /\ nReqs' = nReqs + 1
    /\ pr' = [pr EXCEPT ![p] = [Idle EXCEPT !.pc = pc, !.op = op,
                                           !.asset = asset, !.pubkey = pubkey,
                                           !.ip = ip]]

SavePeerToS3(p, asset, pubkey, ip) ==
    /\ Begin(p, "save", asset, pubkey, ip, "s3_load", MaxS3Calls)
    /\ UNCHANGED <<dbVars, apiVars, scan, envVars, s3, wg>>

RemovePeerFromS3(p, asset, pubkey) ==
    /\ Begin(p, "remove", asset, pubkey, <<>>, "s3_load", MaxS3Calls)
    /\ UNCHANGED <<dbVars, apiVars, scan, envVars, s3, wg>>

InitS3 ==
    /\ client = {}
    /\ wgPeer = {}
    /\ wgIPPool = {}
    /\ nAllocs = 0
    /\ last = NoCall
    /\ scan = NoScan
    /\ NoRequests
    /\ NoEnv

NextS3 ==
    \/ \E p \in Procs, k \in Pubkeys, ip \in SaveIPs : SavePeerToS3(p, "a1", k, ip)
    \/ \E p \in Procs, k \in Pubkeys : RemovePeerFromS3(p, "a1", k)
    \/ \E p \in Procs : S3Step(p)

SpecS3 == InitS3 /\ [][NextS3]_vars

(***************************************************************************)
(* The transaction of AllocateIP, one statement at a time: the statements  *)
(* write to the transaction's copy of the pool table, which replaces the   *)
(* table when the function returns nil and is dropped when it returns an   *)
(* error.  Any statement of the store may fail.                            *)
(***************************************************************************)
\* faulty variant: the writes of a failed transaction are kept
TxOutcomeNoRollback(pools, written, err) == written

\* d.db.Transaction(func): commit when func returns nil, rollback otherwise
TxOutcome(pools, written, err) == IF err = "nil" THEN written ELSE pools

\* AllocateIP returns: the transaction ends with err
TxReturn(err) ==
    /\ wgIPPool' = TxOutcome(wgIPPool, scan.pools, err)
    /\ last' = [op |-> "AllocateIP", region |-> scan.region,
                pools |-> wgIPPool, afterDealloc |-> 0, err |-> err,
                ip |-> IF err = "nil" THEN FormatIP(scan.currentIP) ELSE <<>>]
    /\ scan' = [scan EXCEPT !.pc = "returned", !.err = err]
    /\ UNCHANGED <<client, wgPeer, nAllocs, reqVars, envVars>>

\* First(&pool) with the row lock; a region without a row gets one with
\* NextIP 2 by tx.Create.  First may fail with an error other than not
\* found; Create may fail with the requery finding no row either
TxGetOrCreate(fail) ==
    /\ scan.pc = "tx_pool"
    /\ fail = "Create" => ~HasPool(wgIPPool, scan.region)
    /\ IF fail = "none"
       THEN /\ scan' = [scan EXCEPT
                   !.pc = "tx_pluck",
                   !.pools = IF HasPool(wgIPPool, scan.region) THEN wgIPPool
                             ELSE SavePool(wgIPPool, scan.region, MinOctet),
                   !.startIP = StartIP(wgIPPool, scan.region)]
            /\ UNCHANGED <<dbVars, apiVars, reqVars, envVars>>
       ELSE TxReturn(fail)

\* Pluck("wg_peer.assigned_ip") over the join, and the set of used octets
TxPluck(fail) ==
    /\ scan.pc = "tx_pluck"
    /\ IF fail = "none"
       THEN /\ scan' = [scan EXCEPT
                   !.pc = "loop",
                   !.currentIP = scan.startIP,
                   !.usedOctets = UsedOctets(wgPeer, client, scan.region)]
            /\ UNCHANGED <<dbVars, apiVars, reqVars, envVars>>
       ELSE TxReturn(fail)

\* if !found { return ErrIPPoolExhausted }
TxExhausted ==
    /\ scan.pc = "done"
    /\ ~scan.found
    /\ TxReturn("ErrIPPoolExhausted")

\* pool.NextIP = nextIP; tx.Save(&pool), then return nil and the commit
TxSave(fail) ==
    /\ scan.pc = "done"
    /\ scan.found
    /\ IF fail = "none"
       THEN /\ scan' = [scan EXCEPT
                   !.pc = "tx_commit",
                   !.pools = SavePool(@, scan.region, NextOctet(scan.currentIP))]
            /\ UNCHANGED <<dbVars, apiVars, reqVars, envVars>>
       ELSE TxReturn(fail)

TxCommit(fail) ==
    /\ scan.pc = "tx_commit"
    /\ TxReturn(IF fail = "none" THEN "nil" ELSE fail)

\* a peer row of client a1 for every octet of the pool
FullPeers ==
    {[assetName |-> "a1", pubkey |-> o, assignedIP |-> FormatIP(o)] : o \in AllOctets}

\* the peer tables the transaction is run on: empty, every address held,
\* and all but the first or the last held
TxPeerInputs ==
    {{}, FullPeers,
     {x \in FullPeers : x.pubkey # MinOctet},
     {x \in FullPeers : x.pubkey # MaxOctet}}

\* the pool tables: no row, or a row with the hint at an end or inside
TxPoolInputs ==
    {{}} \cup {{[region |-> cfgRegion, nextIP |-> h]} : h \in {MinOctet, TxHint, MaxOctet}}

InitTx ==
    /\ client = {[assetName |-> a, region |-> cfgRegion] : a \in Assets}
    /\ wgPeer \in TxPeerInputs
    /\ wgIPPool \in TxPoolInputs
    /\ nAllocs = 0
    /\ last = NoCall
    /\ NoRequests
    /\ NoEnv
    /\ scan = [pc |-> "tx_pool", region |-> cfgRegion, pools |-> {},
               startIP |-> 0, currentIP |-> 0, usedOctets |-> {},
               found |-> FALSE, iterations |-> 0, err |-> "nil"]

NextTx ==
    \/ \E fail \in {"none", "First", "Create"} : TxGetOrCreate(fail)
    \/ \E fail \in {"none", "Pluck"} : TxPluck(fail)
    \/ ScanFound
    \/ ScanAdvance
    \/ ScanExhausted
    \/ TxExhausted
    \/ \E fail \in {"none", "Save"} : TxSave(fail)
    \/ \E fail \in {"none", "Commit"} : TxCommit(fail)

SpecTx == InitTx /\ [][NextTx]_vars

(***************************************************************************)
(* One call of SavePeerToS3 or RemovePeerFromS3 by each of NumLedgerCalls  *)
(* concurrent callers on one key, and a store whose answer to a put may be *)
(* lost: the context of the call expires after the store has applied it.   *)
(***************************************************************************)
LedgerProcs == 1..NumLedgerCalls

\* svc.PutObject returns an error that is no precondition failure (the
\* deadline of ctx passed, the connection broke) after the store applied it
S3PutUnknown(p) ==
    /\ pr[p].pc = "s3_put"
    /\ PutAllowed(s3[pr[p].asset], pr[p].file)
    /\ s3' = [s3 EXCEPT ![pr[p].asset] = PutObject(@, Upload(p))]
    /\ S3Return(p, "PutError", "S3PutUnknown")
    /\ UNCHANGED <<dbVars, apiVars, scan, envVars, wg, nReqs>>

\* the one call of caller p
FirstSave(p, asset, pubkey, ip) ==
    /\ pr[p].pc = "idle"
    /\ Begin(p, "save", asset, pubkey, ip, "s3_load", NumLedgerCalls)
    /\ UNCHANGED <<dbVars, apiVars, scan, envVars, s3, wg>>

FirstRemove(p, asset, pubkey) ==
    /\ pr[p].pc = "idle"
    /\ Begin(p, "remove", asset, pubkey, <<>>, "s3_load", NumLedgerCalls)
    /\ UNCHANGED <<dbVars, apiVars, scan, envVars, s3, wg>>

InitLedger ==
    /\ client = {}
    /\ wgPeer = {}
    /\ wgIPPool = {}
    /\ nAllocs = 0
    /\ last = NoCall
    /\ scan = NoScan
    /\ s3 = [a \in Assets |-> NoObject]
    /\ wg = {}
    /\ pr = [p \in LedgerProcs |-> Idle]
    /\ nReqs = 0
    /\ NoEnv

NextLedger ==
    \/ \E p \in LedgerProcs, k \in Pubkeys, ip \in SaveIPs : FirstSave(p, "a1", k, ip)
    \/ \E p \in LedgerProcs, k \in Pubkeys : FirstRemove(p, "a1", k)
    \/ \E p \in LedgerProcs : S3Step(p)
    \/ \E p \in LedgerProcs : S3PutUnknown(p)

SpecLedger == InitLedger /\ [][NextLedger]_vars

(***************************************************************************)
(* The handlers wgRegisterImpl and wgPeerDeleteImpl, one call of the       *)
(* database, of the ledger or of the endpoint at a time.                   *)
(***************************************************************************)
PeerByPubkey(pubkey) == CHOOSE r \in wgPeer : r.pubkey = pubkey

\* CountWGPeersByAsset
CountWGPeers(asset) == Cardinality({r \in wgPeer : r.assetName = asset})

Done(p, status, event) ==
    pr' = [pr EXCEPT ![p].pc = "done", ![p].status = status,
                     ![p].trace = Log(p, event)]

Goto(p, pc, event) ==
    pr' = [pr EXCEPT ![p].pc = pc, ![p].trace = Log(p, event)]

\* a register request that passed validation and signature verification:
\* the client row exists (ClientByAssetName) and has not expired
RegisterRequestCall(p, asset, pubkey, max) ==
    /\ \E c \in client : c.assetName = asset
    /\ Begin(p, "register", asset, pubkey, <<>>, "reg_lookup", max)
    /\ UNCHANGED <<dbVars, apiVars, scan, envVars, s3, wg>>

RegisterRequest(p, asset, pubkey) ==
    RegisterRequestCall(p, asset, pubkey, MaxRequests)

\* faulty variant: without the fast path, a key the client holds already is
\* registered like a new one
RegLookupNoFastPath(p) ==
    /\ pr[p].pc = "reg_lookup"
    /\ IF /\ PubkeyExists(wgPeer, pr[p].pubkey)
          /\ PeerByPubkey(pr[p].pubkey).assetName # pr[p].asset
       THEN Done(p, 400, "GetWGPeerByPubkey")
       ELSE Goto(p, "reg_alloc", "GetWGPeerByPubkey")
    /\ UNCHANGED <<dbVars, apiVars, scan, envVars, s3, wg, nReqs>>

\* GetWGPeerByPubkey: another client's key answers 400, this client's own
\* key answers 200 with the existing IP, an unknown key goes on
RegLookup(p) ==
    /\ pr[p].pc = "reg_lookup"
    /\ IF PubkeyExists(wgPeer, pr[p].pubkey)
       THEN IF PeerByPubkey(pr[p].pubkey).assetName # pr[p].asset
            THEN Done(p, 400, "GetWGPeerByPubkey")
            ELSE pr' = [pr EXCEPT ![p].pc = "done", ![p].status = 200,
                           ![p].ip = PeerByPubkey(pr[p].pubkey).assignedIP,
                           ![p].trace = Log(p, "GetWGPeerByPubkey")]
       ELSE Goto(p, "reg_count", "GetWGPeerByPubkey")
    /\ UNCHANGED <<dbVars, apiVars, scan, envVars, s3, wg, nReqs>>

\* CountWGPeersByAsset against the device limit
RegCount(p) ==
    /\ pr[p].pc = "reg_count"
    /\ IF CountWGPeers(pr[p].asset) >= WGMaxDevices
       THEN Done(p, 403, "CountWGPeersByAsset")
       ELSE Goto(p, "reg_alloc", "CountWGPeersByAsset")
    /\ UNCHANGED <<dbVars, apiVars, scan, envVars, s3, wg, nReqs>>

\* a.db.AllocateIP(a.cfg.Vpn.Region)
RegAllocate(p) ==
    /\ pr[p].pc = "reg_alloc"
    /\ LET tx == AllocateIPTx(wgIPPool, wgPeer, client, cfgRegion)
       IN  /\ wgIPPool' = tx.pools
           /\ IF tx.err = "nil"
              THEN pr' = [pr EXCEPT ![p].pc = "s3_load", ![p].ip = tx.ip,
                                    ![p].trace = Append(pr[p].trace,
                                               Event("AllocateIP", tx.ip))]
              ELSE Done(p, 500, "AllocateIPErr")
    /\ UNCHANGED <<client, wgPeer, apiVars, scan, envVars, s3, wg, nReqs>>

\* the ledger write failed: DeallocateIP(region, assignedIP), then 500
RegDeallocate(p) ==
    /\ pr[p].pc = "reg_dealloc"
    /\ wgIPPool' = DeallocatePools(wgIPPool, cfgRegion, pr[p].ip)
    /\ Done(p, 500, "DeallocateIP")
    /\ UNCHANGED <<client, wgPeer, apiVars, scan, envVars, s3, wg, nReqs>>

\* a.db.AddWGPeer; an error is logged and the handler goes on
RegAddPeer(p) ==
    /\ pr[p].pc = "reg_addpeer"
    /\ wgPeer' = InsertPeer(wgPeer, pr[p].asset, pr[p].pubkey, pr[p].ip)
    /\ Goto(p, "reg_wgadd",
            IF InsertPeerErr(wgPeer, pr[p].pubkey) = "nil"
            THEN "AddWGPeer" ELSE "AddWGPeerErr")
    /\ UNCHANGED <<client, wgIPPool, apiVars, scan, envVars, s3, wg, nReqs>>

\* wgClient.AddPeer succeeds, then the response
RegPush(p) ==
    /\ pr[p].pc = "reg_wgadd"
    /\ wg' = wg \cup {[pubkey |-> pr[p].pubkey, assignedIP |-> pr[p].ip]}
    /\ Done(p, 200, "AddPeer")
    /\ UNCHANGED <<dbVars, apiVars, scan, envVars, s3, nReqs>>

\* wgClient.AddPeer fails: logged, the response is the same
RegPushFails(p) ==
    /\ pr[p].pc = "reg_wgadd"
    /\ Done(p, 200, "AddPeerErr")
    /\ UNCHANGED <<dbVars, apiVars, scan, envVars, s3, wg, nReqs>>

\* a delete request that passed validation and signature verification
DeleteRequestCall(p, asset, pubkey, max) ==
    /\ \E c \in client : c.assetName = asset
    /\ Begin(p, "delete", asset, pubkey, <<>>, "del_lookup", max)
    /\ UNCHANGED <<dbVars, apiVars, scan, envVars, s3, wg>>

DeleteRequest(p, asset, pubkey) ==
    DeleteRequestCall(p, asset, pubkey, MaxRequests)

\* GetWGPeerByPubkey: 404 when the key is unknown or another client's
DelLookup(p) ==
    /\ pr[p].pc = "del_lookup"
    /\ IF /\ PubkeyExists(wgPeer, pr[p].pubkey)
          /\ PeerByPubkey(pr[p].pubkey).assetName = pr[p].asset
       THEN pr' = [pr EXCEPT ![p].pc = "s3_load",
                      ![p].ip = PeerByPubkey(pr[p].pubkey).assignedIP,
                      ![p].trace = Log(p, "GetWGPeerByPubkey")]
       ELSE Done(p, 404, "GetWGPeerByPubkey")
    /\ UNCHANGED <<dbVars, apiVars, scan, envVars, s3, wg, nReqs>>

\* a.db.DeleteWGPeer
DelDelete(p) ==
    /\ pr[p].pc = "del_dbdelete"
    /\ wgPeer' = RemovePeerRow(wgPeer, pr[p].pubkey)
    /\ Goto(p, "del_dealloc", "DeleteWGPeer")
    /\ UNCHANGED <<client, wgIPPool, apiVars, scan, envVars, s3, wg, nReqs>>

\* a.db.DeallocateIP(a.cfg.Vpn.Region, peer.AssignedIP)
DelDeallocate(p) ==
    /\ pr[p].pc = "del_dealloc"
    /\ wgIPPool' = DeallocatePools(wgIPPool, cfgRegion, pr[p].ip)
    /\ Goto(p, "del_wgremove", "DeallocateIP")
    /\ UNCHANGED <<client, wgPeer, apiVars, scan, envVars, s3, wg, nReqs>>

\* wgClient.RemovePeer succeeds, then the response
DelPush(p) ==
    /\ pr[p].pc = "del_wgremove"
    /\ wg' = {x \in wg : x.pubkey # pr[p].pubkey}
    /\ Done(p, 200, "RemovePeer")
    /\ UNCHANGED <<dbVars, apiVars, scan, envVars, s3, nReqs>>

\* wgClient.RemovePeer fails: logged, the response is the same
DelPushFails(p) ==
    /\ pr[p].pc = "del_wgremove"
    /\ Done(p, 200, "RemovePeerErr")
    /\ UNCHANGED <<dbVars, apiVars, scan, envVars, s3, wg, nReqs>>

\* both clients are indexed, in this instance's region
Init ==
    /\ client = {[assetName |-> a, region |-> cfgRegion] : a \in Assets}
    /\ wgPeer = {}
    /\ wgIPPool = {}
    /\ nAllocs = 0
    /\ last = NoCall
    /\ scan = NoScan
    /\ NoRequests
    /\ NoEnv

Next ==
    \/ \E p \in Procs, a \in Assets, k \in Pubkeys : RegisterRequest(p, a, k)
    \/ \E p \in Procs, a \in Assets, k \in Pubkeys : DeleteRequest(p, a, k)
    \/ \E p \in Procs : RegLookup(p)
    \/ \E p \in Procs : RegCount(p)
    \/ \E p \in Procs : RegAllocate(p)
    \/ \E p \in Procs : RegDeallocate(p)
    \/ \E p \in Procs : RegAddPeer(p)
    \/ \E p \in Procs : RegPush(p)
    \/ \E p \in Procs : RegPushFails(p)
    \/ \E p \in Procs : DelLookup(p)
    \/ \E p \in Procs : DelDelete(p)
    \/ \E p \in Procs : DelDeallocate(p)
    \/ \E p \in Procs : DelPush(p)
    \/ \E p \in Procs : DelPushFails(p)
    \/ \E p \in Procs : S3Step(p)

Spec == Init /\ [][Next]_vars

(***************************************************************************)
(* Registrations against a store whose answer to a put may be lost.        *)
(***************************************************************************)
NextRegister ==
    \/ \E p \in Procs, a \in Assets, k \in Pubkeys : RegisterRequest(p, a, k)
    \/ \E p \in Procs : RegLookup(p)
    \/ \E p \in Procs : RegCount(p)
    \/ \E p \in Procs : RegAllocate(p)
    \/ \E p \in Procs : RegDeallocate(p)
    \/ \E p \in Procs : RegAddPeer(p)
    \/ \E p \in Procs : RegPush(p)
    \/ \E p \in Procs : RegPushFails(p)
    \/ \E p \in Procs : S3Step(p)
    \/ \E p \in Procs : S3PutUnknown(p)

SpecRegister == Init /\ [][NextRegister]_vars

(***************************************************************************)
(* The handlers called by three clients of one region, each with a key of  *)
(* its own, MaxRaceRequests requests in all.                               *)
(***************************************************************************)
RaceAssets == {"a1", "a2", "a3"}

\* the client and the public key of each request
RacePeers == {<<"a1", 1>>, <<"a2", 2>>, <<"a3", 3>>}

InitRace ==
    /\ client = {[assetName |-> a, region |-> cfgRegion] : a \in RaceAssets}
    /\ wgPeer = {}
    /\ wgIPPool = {}
    /\ nAllocs = 0
    /\ last = NoCall
    /\ scan = NoScan
    /\ s3 = [a \in RaceAssets |-> NoObject]
    /\ wg = {}
    /\ pr = [p \in Procs |-> Idle]
    /\ nReqs = 0
    /\ NoEnv

NextRace ==
    \/ \E p \in Procs, x \in RacePeers :
          RegisterRequestCall(p, x[1], x[2], MaxRaceRequests)
    \/ \E p \in Procs, x \in RacePeers :
          DeleteRequestCall(p, x[1], x[2], MaxRaceRequests)
    \/ \E p \in Procs : RegLookup(p)
    \/ \E p \in Procs : RegCount(p)
    \/ \E p \in Procs : RegAllocate(p)
    \/ \E p \in Procs : RegDeallocate(p)
    \/ \E p \in Procs : RegAddPeer(p)
    \/ \E p \in Procs : RegPush(p)
    \/ \E p \in Procs : RegPushFails(p)
    \/ \E p \in Procs : DelLookup(p)
    \/ \E p \in Procs : DelDelete(p)
    \/ \E p \in Procs : DelDeallocate(p)
    \/ \E p \in Procs : DelPush(p)
    \/ \E p \in Procs : DelPushFails(p)
    \/ \E p \in Procs : S3Step(p)

SpecRace == InitRace /\ [][NextRace]_vars

(***************************************************************************)
(* The indexer: chain events handled in chain order, the client table with *)
(* all the columns a client datum fills, the reference tables, and the     *)
(* re-delivery of a suffix of the events after a reconnect.                *)
(***************************************************************************)
Expirations == {1, 2}
Credentials == {"c1", "c2"}
TxIds == {"t1", "t2"}

\* the reference row has the fixed primary key referenceId
referenceId == 1

\* the price lists and region lists of reference datums
PriceInputs ==
    {<<>>, <<[duration |-> 1, price |-> 10]>>,
     <<[duration |-> 1, price |-> 10], [duration |-> 2, price |-> 15]>>}
RegionInputs == {<<"r1">>, <<"r1", "r2">>}

\* outputs to the script address that carry a client token and a client datum
ClientEvents ==
    {[kind |-> "client", assetName |-> a, expiration |-> x,
      credential |-> c, region |-> r] :
        a \in Assets, x \in Expirations, c \in Credentials, r \in Regions}

\* outputs that carry the reference token and a reference datum
ReferenceEvents ==
    {[kind |-> "reference", txId |-> t, prices |-> ps, regions |-> rs] :
        t \in TxIds, ps \in PriceInputs, rs \in RegionInputs}

\* outputs with a missing or undecodable datum: logged and ignored
IgnoredEvents == {[kind |-> "ignored"]}

\* the row handleEventClient passes to AddClient
ClientRow(e) ==
    [assetName |-> e.assetName, expiration |-> e.expiration,
     credential |-> e.credential, region |-> e.region]

\* faulty variant: the new rows added to those of the earlier calls
AccumulateRows(old, new) == old \o new

\* Delete of every row of the table, then the rows of this call
ReplaceRows(old, new) == new

\* Create with ON CONFLICT (id) DO UPDATE of the row with id = referenceId
UpsertReference(rows, txId) ==
    {x \in rows : x.id # referenceId} \cup {[id |-> referenceId, txId |-> txId]}

PriceRows(prices) ==
    [i \in 1..Len(prices) |->
        [referenceID |-> referenceId, duration |-> prices[i].duration,
         price |-> prices[i].price]]

RegionRows(regions) ==
    [i \in 1..Len(regions) |-> [referenceID |-> referenceId, name |-> regions[i]]]

\* the statements of the transaction of UpdateReferenceData, in order; the
\* tables after the first `steps` of them
ReferenceTx(r, txId, prices, regions, steps) ==
    [rows |-> IF steps >= 3 THEN UpsertReference(r.rows, txId) ELSE r.rows,
     prices |-> IF steps >= 3
                THEN ReplaceRows(r.prices, PriceRows(prices))
                ELSE IF steps >= 1 THEN <<>> ELSE r.prices,
     regions |-> IF steps >= 3
                 THEN ReplaceRows(r.regions, RegionRows(regions))
                 ELSE IF steps >= 2 THEN <<>> ELSE r.regions]

\* faulty variant: the statements run outside a transaction
NoRollback(before, after, err) == after

\* d.db.Transaction: commit when the function returns nil, roll back otherwise
Commit(before, after, err) == IF err = "nil" THEN after ELSE before

\* the reference tables UpdateReferenceData leaves when its statement number
\* failedAt fails (0: none fails)
UpdateReference(r, txId, prices, regions, failedAt) ==
    IF failedAt = 0
    THEN Commit(r, ReferenceTx(r, txId, prices, regions, 3), "nil")
    ELSE Commit(r, ReferenceTx(r, txId, prices, regions, failedAt - 1), "error")

Delivering == chain.pc \in {"sync", "replayed"}

\* handleEventClient: AddClient with the fields of the datum
HandleClient(e) ==
    /\ client' = UpsertClientRow(client, ClientRow(e))
    /\ last' = [op |-> "AddClient", row |-> ClientRow(e)]
    /\ ref' = ref

\* handleEventReference: UpdateReferenceData succeeds
HandleReference(e) ==
    /\ ref' = UpdateReference(ref, e.txId, e.prices, e.regions, 0)
    /\ last' = [op |-> "UpdateReferenceData", err |-> "nil"]
    /\ client' = client

HandleEvent(e) ==
    IF e.kind = "client" THEN HandleClient(e)
    ELSE IF e.kind = "reference" THEN HandleReference(e)
    ELSE UNCHANGED <<client, ref, last>>

RefArgs(e) == <<[txId |-> e.txId, prices |-> e.prices, regions |-> e.regions]>>

\* the event source delivers the next event of the chain
Deliver(e) ==
    /\ Delivering
    /\ Len(chain.log) < MaxEvents
    /\ HandleEvent(e)
    /\ chain' = [chain EXCEPT !.pc = "sync",
                              !.log = Append(@, e),
                              !.refArgs = IF e.kind = "reference"
                                          THEN RefArgs(e) ELSE @]
    /\ UNCHANGED <<wgPeer, wgIPPool, nAllocs, scan, reqVars, boot, ix>>

\* the next event carries a reference datum and UpdateReferenceData fails at
\* one of its statements: handleEvent returns the error
DeliverFails(e, failedAt) ==
    /\ Delivering
    /\ Len(chain.log) < MaxEvents
    /\ ref' = UpdateReference(ref, e.txId, e.prices, e.regions, failedAt)
    /\ last' = [op |-> "UpdateReferenceData", err |-> "error"]
    /\ chain' = [chain EXCEPT !.pc = "sync"]
    /\ UNCHANGED <<dbVars, nAllocs, scan, reqVars, boot, ix>>

\* reconnect from an earlier cursor point: the events from number k on will
\* be delivered again
Reconnect(k) ==
    /\ Delivering
    /\ k \in 1..Len(chain.log)
    /\ chain' = [chain EXCEPT !.pc = "replay", !.from = k, !.i = k,
                              !.snapClient = client, !.snapRef = ref]
    /\ UNCHANGED <<dbVars, apiVars, scan, reqVars, ref, boot, ix>>

\* one event delivered again
Redeliver ==
    /\ chain.pc = "replay"
    /\ HandleEvent(chain.log[chain.i])
    /\ chain' = [chain EXCEPT !.i = @ + 1,
                              !.pc = IF chain.i = Len(chain.log)
                                     THEN "replayed" ELSE "replay",
                              !.refArgs = IF chain.log[chain.i].kind = "reference"
                                          THEN RefArgs(chain.log[chain.i])
                                          ELSE @]
    /\ UNCHANGED <<wgPeer, wgIPPool, nAllocs, scan, reqVars, boot, ix>>

InitIndexer ==
    /\ client = {}
    /\ wgPeer = {}
    /\ wgIPPool = {}
    /\ nAllocs = 0
    /\ last = NoCall
    /\ scan = NoScan
    /\ NoRequests
    /\ NoEnv

NextIndexer ==
    \/ \E e \in ClientEvents \cup ReferenceEvents \cup IgnoredEvents : Deliver(e)
    \/ \E e \in ReferenceEvents, failedAt \in 1..3 : DeliverFails(e, failedAt)
    \/ \E k \in 1..MaxEvents : Reconnect(k)
    \/ Redeliver

SpecIndexer == InitIndexer /\ [][NextIndexer]_vars

(***************************************************************************)
(* The datum decoders: ClientDatum, ReferenceDatum and                     *)
(* ReferenceDatumPricing. A datum is a CBOR blob: either bytes that are    *)
(* no constructor, or a constructor with a tag and the encoding of its     *)
(* fields (byte strings, integers, nested blobs).                          *)
(***************************************************************************)
ClientConstructor == 1
ReferenceConstructor == 0
PricingConstructor == 0

Tags == 0..2

Garbage == [kind |-> "garbage", tag |-> 0, shape |-> "other",
            strs |-> <<>>, nums |-> <<>>, subs |-> <<>>]

Constr(tag, shape, strs, nums, subs) ==
    [kind |-> "constr", tag |-> tag, shape |-> shape,
     strs |-> strs, nums |-> nums, subs |-> subs]

\* the zero values of the three types
ZeroClientDatum == [credential |-> "", region |-> "", expiration |-> 0]
ZeroReferenceDatum == [prices |-> <<>>, regions |-> <<>>]
ZeroPricing == [duration |-> 0, price |-> 0]

\* cbor.Decode(data, &tmpConstr), the comparison of the tag, and the decode
\* of the fields into a value of the right layout
DecodeErr(b, tag, shape) ==
    IF b.kind # "constr" THEN "not a constructor"
    ELSE IF b.tag # tag THEN "invalid constructor"
    ELSE IF b.shape # shape THEN "fields do not decode"
    ELSE "nil"

\* faulty variant: the constructor tag is not compared
UnmarshalClientDatumAnyTag(b) ==
    IF b.kind = "constr" /\ b.shape = "client"
    THEN [err |-> "nil",
          value |-> [credential |-> b.strs[1], region |-> b.strs[2],
                     expiration |-> b.nums[1]]]
    ELSE [err |-> "fields do not decode", value |-> ZeroClientDatum]

\* ClientDatum.UnmarshalCBOR: *d is assigned only when nothing failed
UnmarshalClientDatum(b) ==
    IF DecodeErr(b, ClientConstructor, "client") = "nil"
    THEN [err |-> "nil",
          value |-> [credential |-> b.strs[1], region |-> b.strs[2],
                     expiration |-> b.nums[1]]]
    ELSE [err |-> DecodeErr(b, ClientConstructor, "client"),
          value |-> ZeroClientDatum]

\* ReferenceDatumPricing.UnmarshalCBOR
UnmarshalPricing(b) ==
    IF DecodeErr(b, PricingConstructor, "pricing") = "nil"
    THEN [err |-> "nil",
          value |-> [duration |-> b.nums[1], price |-> b.nums[2]]]
    ELSE [err |-> DecodeErr(b, PricingConstructor, "pricing"),
          value |-> ZeroPricing]

\* ReferenceDatum.UnmarshalCBOR: the decode of the fields decodes every
\* element of Prices with ReferenceDatumPricing.UnmarshalCBOR
UnmarshalReferenceDatum(b) ==
    IF DecodeErr(b, ReferenceConstructor, "reference") # "nil"
    THEN [err |-> DecodeErr(b, ReferenceConstructor, "reference"),
          value |-> ZeroReferenceDatum]
    ELSE IF \E i \in 1..Len(b.subs) : UnmarshalPricing(b.subs[i]).err # "nil"
    THEN [err |-> "fields do not decode", value |-> ZeroReferenceDatum]
    ELSE [err |-> "nil",
          value |-> [prices |-> [i \in 1..Len(b.subs) |->
                                    UnmarshalPricing(b.subs[i]).value],
                     regions |-> b.strs]]

\* the blobs the decoders are run on
ClientBlobs ==
    {Constr(t, "client", <<c, r>>, <<x>>, <<>>) :
        t \in Tags, c \in Credentials, r \in Regions, x \in {1000, 2999}}
PricingBlobs ==
    {Constr(t, "pricing", <<>>, <<d, 10 * d>>, <<>>) : t \in Tags, d \in 1..2}
ReferenceBlobs ==
    {Constr(t, "reference", rs, <<>>, ps) :
        t \in Tags, rs \in RegionInputs,
        ps \in {<<>>} \cup {<<p>> : p \in PricingBlobs}
                 \cup {<<Constr(0, "pricing", <<>>, <<1, 10>>, <<>>), p>> :
                          p \in PricingBlobs}}
BlobInputs == ClientBlobs \cup PricingBlobs \cup ReferenceBlobs \cup {Garbage}

InitDatum ==
    /\ client = {}
    /\ wgPeer = {}
    /\ wgIPPool = {}
    /\ nAllocs = 0
    /\ last = NoCall
    /\ scan = NoScan
    /\ NoRequests
    /\ ref = NoReference
    /\ chain = NoChain
    /\ boot = NoBoot
    /\ \E b \in BlobInputs : ix = [NoIx EXCEPT !.pc = "decode", !.blob = <<b>>]

\* cbor.Decode(datum, &v) for a v of each of the three types
DecodeDatum ==
    /\ ix.pc = "decode"
    /\ ix' = [ix EXCEPT !.pc = "decoded",
                        !.decoded = <<[client |-> UnmarshalClientDatum(ix.blob[1]),
                                       reference |-> UnmarshalReferenceDatum(ix.blob[1]),
                                       pricing |-> UnmarshalPricing(ix.blob[1])]>>]
    /\ UNCHANGED <<dbVars, apiVars, scan, reqVars, ref, chain, boot>>

NextDatum == DecodeDatum

SpecDatum == InitDatum /\ [][NextDatum]_vars

(***************************************************************************)
(* Indexer.handleEvent on the produced outputs of one transaction, one     *)
(* output per step, with handleEventReference and handleEventClient.       *)
(***************************************************************************)
\* cfg.Indexer.ReferenceToken is "<policy>.<name>": the name of the token
refTokenAssetName == "reftoken"

\* txOutput.Output.Assets(): nil, or the asset names under the reference
\* policy and under the script hash (other policies are not looked at)
NilAssets == [nil |-> TRUE, ref |-> <<>>, script |-> <<>>]
MultiAsset(refNames, scriptNames) ==
    [nil |-> FALSE, ref |-> refNames, script |-> scriptNames]

\* a produced output: its address, its assets, its datum (<<>> when it has
\* none) and the id of the output
Utxo(addr, assets, datum, id) ==
    [addr |-> addr, assets |-> assets, datum |-> datum, id |-> id]

\* the error a handler returns for an output it ignores
\* faulty variant: an undecodable datum is returned as an error
SkipIsFatal(reason) == IF reason = "undecodable" THEN "error" ELSE "nil"

\* Warn and return nil
Skip(reason) == "nil"

\* faulty variant: the client is generated for every region
RegionMatchesAny(cfg, region) == TRUE

\* i.cfg.Vpn.Region != string(clientDatum.Region) is false
RegionMatches(cfg, region) == cfg = region

\* len(tmpAssets.Assets(i.refTokenPolicyId)) > 0
CallsReference(out) ==
    out.addr = "script" /\ ~out.assets.nil /\ Len(out.assets.ref) > 0

\* len(tmpAssets.Assets(i.scriptHash)) > 0
CallsClient(out) ==
    out.addr = "script" /\ ~out.assets.nil /\ Len(out.assets.script) > 0

\* handleEventReference(out) on the reference tables rf; fail = TRUE is
\* UpdateReferenceData returning an error
EventReference(rf, out, fail) ==
    IF out.datum = <<>>
    THEN [ref |-> rf, res |-> "nodatum", err |-> Skip("nodatum")]
    ELSE LET d == UnmarshalReferenceDatum(out.datum[1])
         IN  IF d.err # "nil"
             THEN [ref |-> rf, res |-> "undecodable", err |-> Skip("undecodable")]
             ELSE IF fail
             THEN [ref |-> UpdateReference(rf, out.id, d.value.prices,
                                           d.value.regions, 1),
                   res |-> "error", err |-> "error"]
             ELSE [ref |-> UpdateReference(rf, out.id, d.value.prices,
                                           d.value.regions, 0),
                   res |-> "updated", err |-> "nil"]

\* the row handleEventClient gives to AddClient: the first asset name under
\* the script hash, the expiration in seconds, the credential, the region
DatumRow(out, v) ==
    [assetName |-> out.assets.script[1], expiration |-> v.expiration \div 1000,
     credential |-> v.credential, region |-> v.region]

\* handleEventClient(out) on the client table cl; fail names the call that
\* returns an error, if any
EventClient(cl, out, fail) ==
    IF out.datum = <<>>
    THEN [client |-> cl, gen |-> <<>>, res |-> "nodatum", err |-> Skip("nodatum")]
    ELSE LET d == UnmarshalClientDatum(out.datum[1])
         IN  IF d.err # "nil"
             THEN [client |-> cl, gen |-> <<>>, res |-> "undecodable",
                   err |-> Skip("undecodable")]
             ELSE IF out.assets.script[1] = ""
             THEN [client |-> cl, gen |-> <<>>, res |-> "noasset",
                   err |-> Skip("noasset")]
             ELSE IF fail = "AddClient"
             THEN [client |-> cl, gen |-> <<>>, res |-> "adderror", err |-> "error"]
             ELSE LET row == DatumRow(out, d.value)
                      gen == <<[assetName |-> row.assetName, region |-> row.region,
                                ok |-> fail # "Generate"]>>
                  IN  IF ~RegionMatches(cfgRegion, row.region)
                      THEN [client |-> UpsertClientRow(cl, row), gen |-> <<>>,
                            res |-> "upserted", err |-> "nil"]
                      ELSE IF fail = "Generate"
                      THEN [client |-> UpsertClientRow(cl, row), gen |-> gen,
                            res |-> "generror", err |-> "error"]
                      ELSE [client |-> UpsertClientRow(cl, row), gen |-> gen,
                            res |-> "generated", err |-> "nil"]

\* one iteration of the loop of handleEvent over the produced outputs
EventOutput(cl, rf, out, fail) ==
    LET r == IF CallsReference(out)
             THEN EventReference(rf, out, fail = "UpdateReferenceData")
             ELSE [ref |-> rf, res |-> "notcalled", err |-> "nil"]
        c == IF CallsClient(out) /\ r.err = "nil"
             THEN EventClient(cl, out, fail)
             ELSE [client |-> cl, gen |-> <<>>, res |-> "notcalled", err |-> "nil"]
    IN  [client |-> c.client, ref |-> r.ref, gen |-> c.gen,
         refRes |-> r.res, clientRes |-> c.res,
         err |-> IF r.err # "nil" THEN r.err ELSE c.err]

Failures == {"none", "UpdateReferenceData", "AddClient", "Generate"}

\* the event source calls handleEvent with a transaction event
StartEvent(tx) ==
    /\ ix.pc \in {"idle", "returned"}
    /\ ix.nEvents < MaxTxEvents
    /\ ix' = [ix EXCEPT !.pc = "loop", !.outs = tx, !.trace = <<>>,
                        !.err = "none", !.nEvents = @ + 1]
    /\ UNCHANGED <<dbVars, apiVars, scan, reqVars, ref, chain, boot>>

\* the payload is no transaction event: the default case returns an error
UnexpectedEvent ==
    /\ ix.pc \in {"idle", "returned"}
    /\ ix.nEvents < MaxTxEvents
    /\ ix' = [ix EXCEPT !.pc = "returned", !.outs = <<>>, !.trace = <<>>,
                        !.err = "error", !.nEvents = @ + 1]
    /\ UNCHANGED <<dbVars, apiVars, scan, reqVars, ref, chain, boot>>

\* the next produced output; a handler's error is returned at once
HandleOutput(fail) ==
    /\ ix.pc = "loop"
    /\ LET out == Head(ix.outs)
           r == EventOutput(client, ref, out, fail)
       IN  /\ fail # "none" => r.err = "error"
           /\ client' = r.client
           /\ ref' = r.ref
           /\ ix' = [ix EXCEPT
                  !.outs = Tail(@),
                  !.trace = Append(@, [out |-> out, refRes |-> r.refRes,
                                       clientRes |-> r.clientRes]),
                  !.generated = @ \o r.gen,
                  !.err = IF r.err # "nil" THEN "error"
                          ELSE IF Tail(ix.outs) = <<>> THEN "nil" ELSE "none",
                  !.pc = IF r.err # "nil" \/ Tail(ix.outs) = <<>>
                         THEN "returned" ELSE "loop"]
    /\ UNCHANGED <<wgPeer, wgIPPool, apiVars, scan, reqVars, chain, boot>>

\* the datums found in outputs
ClientBlob(tag, region) == Constr(tag, "client", <<"c1", region>>, <<2999>>, <<>>)
ReferenceBlob(tag) ==
    Constr(tag, "reference", <<"r1", "r2">>, <<>>,
           <<Constr(0, "pricing", <<>>, <<1, 10>>, <<>>)>>)
DatumInputs ==
    {<<>>, <<Garbage>>, <<ClientBlob(1, "r1")>>, <<ClientBlob(1, "r2")>>,
     <<ClientBlob(0, "r1")>>, <<ReferenceBlob(0)>>, <<ReferenceBlob(1)>>}

\* the assets found in outputs: none, tokens of other policies only, the
\* reference token, another token of the reference policy, a client token,
\* a token of the script hash with the empty name, and both tokens
AssetInputs ==
    {NilAssets, MultiAsset(<<>>, <<>>),
     MultiAsset(<<refTokenAssetName>>, <<>>), MultiAsset(<<"x">>, <<>>),
     MultiAsset(<<>>, <<"a1">>), MultiAsset(<<>>, <<"">>),
     MultiAsset(<<refTokenAssetName>>, <<"a1">>)}

OutputInputs ==
    {Utxo("script", a, d, "t2") : a \in AssetInputs, d \in DatumInputs}
    \cup {Utxo("other", MultiAsset(<<refTokenAssetName>>, <<"a1">>), d, "t2") :
              d \in {<<ClientBlob(1, "r1")>>, <<ReferenceBlob(0)>>}}

TxInputs ==
    {<<o>> : o \in OutputInputs} \cup
    {<<o1, o2>> : o1 \in OutputInputs, o2 \in OutputInputs}

\* the tables hold nothing, or a client and reference data of an earlier
\* transaction
InitEvent ==
    /\ client \in {{}, {[assetName |-> "a1", expiration |-> 1,
                         credential |-> "c2", region |-> "r1"]}}
    /\ ref \in {NoReference,
                UpdateReference(NoReference, "t1",
                                <<[duration |-> 2, price |-> 15]>>, <<"r1">>, 0)}
    /\ wgPeer = {}
    /\ wgIPPool = {}
    /\ nAllocs = 0
    /\ last = NoCall
    /\ scan = NoScan
    /\ NoRequests
    /\ chain = NoChain
    /\ boot = NoBoot
    /\ ix = NoIx

NextEvent ==
    \/ \E tx \in TxInputs : StartEvent(tx)
    \/ UnexpectedEvent
    \/ \E fail \in Failures : HandleOutput(fail)

SpecEvent == InitEvent /\ [][NextEvent]_vars

(***************************************************************************)
(* Table cursor: Database.AddCursorPoint and Database.GetCursorPoints.     *)
(***************************************************************************)
maxCursorEntries == 50

\* the table is the sequence of its rows in primary-key order
\* SELECT max(id) FROM cursor
MaxId(rows) == rows[Len(rows)].id

\* d.db.Create(&tmpItem): the primary key is one more than the largest
CreateCursor(rows, point) ==
    Append(rows, [id |-> IF rows = <<>> THEN 1 ELSE MaxId(rows) + 1,
                  slot |-> point.slot, hash |-> point.hash])

\* faulty variant: the comparison of the delete turned round
PruneCursorNewest(rows) ==
    LET bound == MaxId(rows) - maxCursorEntries
    IN  SelectSeq(rows, LAMBDA r : ~(r.id > bound))

\* DELETE FROM cursor WHERE id < (SELECT max(id) FROM cursor) - maxCursorEntries
PruneCursor(rows) ==
    LET bound == MaxId(rows) - maxCursorEntries
    IN  SelectSeq(rows, LAMBDA r : ~(r.id < bound))

\* the table AddCursorPoint leaves; prune is rand.Intn(100) == 0, and fail
\* names the statement that returns an error, if any
AddCursorRows(rows, point, prune, fail) ==
    IF fail = "Create" THEN rows
    ELSE IF prune /\ fail # "Delete" THEN PruneCursor(CreateCursor(rows, point))
    ELSE CreateCursor(rows, point)

\* faulty variant: ORDER BY id ascending
CursorPointsAscending(rows) ==
    [i \in 1..Len(rows) |-> [slot |-> rows[i].slot, hash |-> rows[i].hash]]

\* Order("id DESC").Find, then the Point of every row
CursorPoints(rows) ==
    [i \in 1..Len(rows) |->
        [slot |-> rows[Len(rows) + 1 - i].slot,
         hash |-> rows[Len(rows) + 1 - i].hash]]

\* the n-th point the chain gives that is stored
PointAt(n) == [slot |-> 10 * n, hash |-> n]

\* how many points have been stored so far
Stored(rows) == IF rows = <<>> THEN 0 ELSE MaxId(rows)

AddCursorPoint(prune, fail) ==
    /\ ix.nAdds < MaxCursorAdds
    /\ fail \in {"none", "Create"} \/ prune
    /\ LET point == PointAt(Stored(ix.cursor) + 1)
       IN  ix' = [ix EXCEPT
                  !.cursor = AddCursorRows(@, point, prune, fail),
                  !.nAdds = @ + 1,
                  !.pruned = prune /\ fail = "none",
                  !.newest = IF fail = "Create" THEN @ ELSE <<point>>,
                  !.points = <<>>,
                  !.pc = "added"]
    /\ UNCHANGED <<dbVars, apiVars, scan, reqVars, ref, chain, boot>>

GetCursorPoints ==
    /\ ix.pc = "added"
    /\ ix' = [ix EXCEPT !.points = CursorPoints(ix.cursor), !.pc = "got"]
    /\ UNCHANGED <<dbVars, apiVars, scan, reqVars, ref, chain, boot>>

InitCursor ==
    /\ client = {}
    /\ wgPeer = {}
    /\ wgIPPool = {}
    /\ nAllocs = 0
    /\ last = NoCall
    /\ scan = NoScan
    /\ NoRequests
    /\ NoEnv

NextCursor ==
    \/ \E prune \in BOOLEAN, fail \in {"none", "Create", "Delete"} :
          AddCursorPoint(prune, fail)
    \/ GetCursorPoints

SpecCursor == InitCursor /\ [][NextCursor]_vars

(***************************************************************************)
(* Indexer.Start: the points the chain-sync input is told to intersect at. *)
(***************************************************************************)
\* cfg.Indexer.IntersectSlot and IntersectHash: the slot, whether the hash
\* is not the empty string, and whether hex.DecodeString accepts it
ConfigHash == 99
ConfigInputs ==
    {[slot |-> sl, hash |-> ConfigHash, given |-> g, hex |-> h] :
        sl \in {0, 5}, g \in BOOLEAN, h \in BOOLEAN}

\* the else-if branch is taken: no cursor point, and a configured point
UsesConfig(cursorPoints, cfg) ==
    Len(cursorPoints) = 0 /\ cfg.given /\ cfg.slot > 0

\* faulty variant: a configured point is preferred to the stored ones
IntersectPointsConfigFirst(cursorPoints, cfg) ==
    IF cfg.given /\ cfg.slot > 0
    THEN <<[slot |-> cfg.slot, hash |-> cfg.hash]>>
    ELSE cursorPoints

\* the argument of WithIntersectPoints, <<>> when the option is not given
IntersectPoints(cursorPoints, cfg) ==
    IF Len(cursorPoints) > 0 THEN cursorPoints
    ELSE IF cfg.given /\ cfg.slot > 0
         THEN <<[slot |-> cfg.slot, hash |-> cfg.hash]>>
         ELSE <<>>

\* Start up to input_chainsync.New: GetCursorPoints, then the options; a
\* configured hash that is no hex string makes Start return the error
StartIntersect(cfg) ==
    /\ ix.pc \in {"idle", "added"}
    /\ LET cursorPoints == CursorPoints(ix.cursor)
           bad == UsesConfig(cursorPoints, cfg) /\ ~cfg.hex
       IN  ix' = [ix EXCEPT
                  !.pc = "seeded",
                  !.cfg = cfg,
                  !.points = cursorPoints,
                  !.err = IF bad THEN "DecodeString" ELSE "none",
                  !.intersect = IF bad THEN <<>>
                                ELSE IntersectPoints(cursorPoints, cfg)]
    /\ UNCHANGED <<dbVars, apiVars, scan, reqVars, ref, chain, boot>>

\* the points are added by the run of the process before this Start
NextStart ==
    \/ \E prune \in BOOLEAN, fail \in {"none", "Create", "Delete"} :
          ix.pc # "seeded" /\ AddCursorPoint(prune, fail)
    \/ \E cfg \in ConfigInputs : StartIntersect(cfg)

SpecStart == InitCursor /\ [][NextStart]_vars

(***************************************************************************)
(* The catch-up log timer: Indexer.Start, updateStatus, the status-update  *)
(* callback of the chain-sync input, and syncStatusLog, the callback of    *)
(* the timer, each run by a goroutine of its own.                          *)
(***************************************************************************)
\* syncLogTimer.Stop(): a timer that has not fired is stopped, one that has
\* fired or was stopped stays as it is
StopTimer(timer) == IF timer = "armed" THEN "stopped" ELSE timer

\* Start, after pipeline.Start(): i.scheduleSyncStatusLog()
ScheduleSyncStatusLog ==
    /\ ix.pc = "started"
    /\ ix' = [ix EXCEPT !.pc = "running", !.timer = "armed", !.arms = @ + 1]
    /\ UNCHANGED <<dbVars, apiVars, scan, reqVars, ref, chain, boot>>

\* syncStatusLogInterval has passed: the runtime starts syncStatusLog
TimerFires ==
    /\ ix.timer = "armed"
    /\ ix.logs < MaxTimerFires
    /\ ix' = [ix EXCEPT !.timer = "fired", !.cb = "running"]
    /\ UNCHANGED <<dbVars, apiVars, scan, reqVars, ref, chain, boot>>

\* syncStatusLog: the log line, then scheduleSyncStatusLog with a new timer
SyncStatusLog ==
    /\ ix.cb = "running"
    /\ ix' = [ix EXCEPT !.cb = "idle", !.logs = @ + 1,
                        !.timer = "armed", !.arms = @ + 1]
    /\ UNCHANGED <<dbVars, apiVars, scan, reqVars, ref, chain, boot>>

\* updateStatus(status): the cursor point is stored, and on an error the
\* function returns; the first status with TipReached stops the timer the
\* field points to, if any
UpdateStatusCall(tip, prune, fail, max) ==
    /\ ix.pc \in {"started", "running"}
    /\ ix.nStatus < max
    /\ fail \in {"none", "Create"} \/ prune
    /\ LET point == PointAt(ix.nStatus + 1)
           stop == fail = "none" /\ ~ix.tipReached /\ tip
       IN  ix' = [ix EXCEPT
                  !.nStatus = @ + 1,
                  !.err = fail,
                  !.cursor = AddCursorRows(@, point, prune, fail),
                  !.timer = IF stop /\ ix.timer # "none" THEN StopTimer(@) ELSE @,
                  !.tipReached = IF stop THEN TRUE ELSE @,
                  !.tipDone = @ \/ stop]
    /\ UNCHANGED <<dbVars, apiVars, scan, reqVars, ref, chain, boot>>

\* the status with position PointAt(n) is the n-th the chain-sync input
\* delivers
UpdateStatus(tip, prune, fail) == UpdateStatusCall(tip, prune, fail, MaxStatus)

\* Start has started the pipeline and has not yet scheduled the timer
InitTimer ==
    /\ client = {}
    /\ wgPeer = {}
    /\ wgIPPool = {}
    /\ nAllocs = 0
    /\ last = NoCall
    /\ scan = NoScan
    /\ NoRequests
    /\ ref = NoReference
    /\ chain = NoChain
    /\ boot = NoBoot
    /\ ix = [NoIx EXCEPT !.pc = "started"]

NextTimer ==
    \/ ScheduleSyncStatusLog
    \/ TimerFires
    \/ SyncStatusLog
    \/ \E tip \in BOOLEAN, prune \in BOOLEAN, fail \in {"none", "Create", "Delete"} :
          UpdateStatus(tip, prune, fail)

SpecTimer == InitTimer /\ [][NextTimer]_vars

(***************************************************************************)
(* updateStatus called for up to MaxCursorAdds status updates in a row,    *)
(* after Start has returned.                                               *)
(***************************************************************************)
InitStatus ==
    /\ client = {}
    /\ wgPeer = {}
    /\ wgIPPool = {}
    /\ nAllocs = 0
    /\ last = NoCall
    /\ scan = NoScan
    /\ NoRequests
    /\ ref = NoReference
    /\ chain = NoChain
    /\ boot = NoBoot
    /\ ix = [NoIx EXCEPT !.pc = "running", !.timer = "armed", !.arms = 1]

\* how many updates the store has refused to insert so far
CreateFailures == ix.nStatus - Stored(ix.cursor)

NextStatus ==
    \E tip \in BOOLEAN, prune \in BOOLEAN, fail \in {"none", "Create", "Delete"} :
        /\ fail = "Create" => CreateFailures < MaxCreateFails
        /\ UpdateStatusCall(tip, prune, fail, MaxCursorAdds)

SpecStatus == InitStatus /\ [][NextStatus]_vars

(***************************************************************************)
(* Client.SyncPeersToContainer: every active peer of the region pushed to  *)
(* the peer-management endpoint.                                           *)
(***************************************************************************)
\* time.Now() of the query, on the scale of the expirations 1 and 2
Now == 1

\* wg_peer JOIN client ON asset_name
\* WHERE client.region = region AND client.expiration > now
ActivePeers(peers, clients, region) ==
    {x \in peers :
        \E c \in clients : /\ c.assetName = x.assetName
                           /\ c.region = region
                           /\ c.expiration > Now}

\* the rows of a query result, one after the other
RECURSIVE PeersInOrder(_)
PeersInOrder(S) ==
    IF S = {} THEN <<>>
    ELSE LET x == CHOOSE x \in S : \A y \in S : x.pubkey <= y.pubkey
         IN  <<x>> \o PeersInOrder(S \ {x})

\* faulty variant: half of the pushes failing counted as a failure
HighFailureRateFromHalf(failCount, n) ==
    failCount > 0 /\ failCount >= n \div 2

\* failCount > 0 && failCount > len(peers)/2, an integer division
HighFailureRate(failCount, n) ==
    failCount > 0 /\ failCount > n \div 2

\* faulty variant: the loop left at the first failed push
RemainingStopOnFail(todo, ok) == IF ok THEN Tail(todo) ELSE <<>>

\* for _, peer := range peers: the peers still to push after this one
Remaining(todo, ok) == Tail(todo)

\* GetActivePeersForRegion succeeds; with no peer the function returns nil
SyncQuery ==
    /\ boot.pc = "sync_query"
    /\ LET act == ActivePeers(wgPeer, client, cfgRegion)
       IN  boot' = [boot EXCEPT !.active = act,
                                !.n = Cardinality(act),
                                !.todo = PeersInOrder(act),
                                !.pc = IF act = {} THEN "done" ELSE "sync_push",
                                !.syncErr = IF act = {} THEN "nil" ELSE @]
    /\ UNCHANGED <<dbVars, apiVars, scan, reqVars, ref, chain, ix>>

\* GetActivePeersForRegion fails: the error is returned
SyncQueryFails ==
    /\ boot.pc = "sync_query"
    /\ boot' = [boot EXCEPT !.pc = "done", !.syncErr = "QueryError"]
    /\ UNCHANGED <<dbVars, apiVars, scan, reqVars, ref, chain, ix>>

\* the locals after the push of the first peer still to push
Pushed(ok) ==
    [boot EXCEPT !.todo = Remaining(@, ok),
                 !.pushes = Append(@, [peer |-> Head(boot.todo), ok |-> ok]),
                 !.failCount = IF ok THEN @ ELSE @ + 1,
                 !.successCount = IF ok THEN @ + 1 ELSE @,
                 !.pc = IF Remaining(boot.todo, ok) = <<>>
                        THEN "sync_return" ELSE "sync_push"]

\* c.AddPeer succeeds
SyncPush ==
    /\ boot.pc = "sync_push"
    /\ boot' = Pushed(TRUE)
    /\ wg' = wg \cup {[pubkey |-> Head(boot.todo).pubkey,
                       assignedIP |-> Head(boot.todo).assignedIP]}
    /\ UNCHANGED <<dbVars, apiVars, scan, s3, pr, nReqs, ref, chain, ix>>

\* c.AddPeer fails: logged, failCount++
SyncPushFails ==
    /\ boot.pc = "sync_push"
    /\ boot' = Pushed(FALSE)
    /\ UNCHANGED <<dbVars, apiVars, scan, reqVars, ref, chain, ix>>

\* after the loop: the error for a high failure rate, or nil
SyncReturn ==
    /\ boot.pc = "sync_return"
    /\ boot' = [boot EXCEPT !.pc = "done",
                            !.syncErr = IF HighFailureRate(boot.failCount, boot.n)
                                        THEN "HighFailureRate" ELSE "nil"]
    /\ UNCHANGED <<dbVars, apiVars, scan, reqVars, ref, chain, ix>>

SyncStep ==
    SyncQuery \/ SyncQueryFails \/ SyncPush \/ SyncPushFails \/ SyncReturn


\* client a1 is active in the region and has n peers; client a2, where it
\* exists, has one peer and is expired, or active here or in another region
InitSync ==
    /\ \E n \in 0..MaxSyncPeers :
          wgPeer \in
            {  {[assetName |-> "a1", pubkey |-> k, assignedIP |-> FormatIP(k + 1)] :
                    k \in 1..n} \cup other :
               other \in {{}, {[assetName |-> "a2", pubkey |-> 0,
                                assignedIP |-> FormatIP(254)]}} }
    /\ client \in
          {  {[assetName |-> "a1", region |-> cfgRegion, expiration |-> 2]}
                 \cup other :
             other \in {{}} \cup
                 {{[assetName |-> "a2", region |-> r, expiration |-> x]} :
                      r \in Regions, x \in Expirations} }
    /\ wgIPPool = {}
    /\ nAllocs = 0
    /\ last = NoCall
    /\ scan = NoScan
    /\ NoRequests
    /\ ref = NoReference
    /\ chain = NoChain
    /\ ix = NoIx
    /\ boot = [NoBoot EXCEPT !.pc = "sync_query", !.protocol = "wireguard",
                             !.start = wgPeer]

NextSync == SyncStep

SpecSync == InitSync /\ [][NextSync]_vars

(***************************************************************************)
(* main: the WireGuard startup, with Client.RebuildWGPeersFromS3.          *)
(***************************************************************************)
Protocols == {"wireguard", "openvpn"}

\* faulty variant: the table taken for empty whatever it holds
HasNoData(rows) == FALSE

\* Database.HasWGPeers: count > 0
HasData(rows) == Cardinality(rows) > 0

\* ListAllPeerFiles: the keys of the objects under peers/, in key order
ListKeys(objects) ==
    SelectSeq(<<"a1", "a2">>, LAMBDA a : objects[a].exists)

\* clients' regions of the assets of the given peer rows
OwnerRegions(rows, clients) ==
    {c.region : c \in {d \in clients : \E x \in rows : x.assetName = d.assetName}}

\* faulty variant: RebuildIPPool called for the regions of the loaded peers
RebuildTouchedRegions(region, loaded, clients) ==
    PeersInOrder({[pubkey |-> r] : r \in OwnerRegions(loaded, clients)})

\* step 4: the regions db.RebuildIPPool is called with after the loop
RebuildRegions(region, loaded, clients) == <<region>>

\* faulty variant: a file without peers or a failed load ends the loop
LoopPcAbort(keys, peers) ==
    IF peers # <<>> THEN "add" ELSE "rebuild"

\* where the loop over the keys and over the peers of a file goes next
LoopPc(keys, peers) ==
    IF peers # <<>> THEN "add" ELSE IF keys # <<>> THEN "load" ELSE "rebuild"

\* cfg.Vpn.Protocol is not wireguard: the block is skipped
StartupSkip ==
    /\ boot.pc = "start"
    /\ boot.protocol # "wireguard"
    /\ boot' = [boot EXCEPT !.pc = "done"]
    /\ UNCHANGED <<dbVars, apiVars, scan, reqVars, ref, chain, ix>>

\* db.HasWGPeers returns without error; an empty table starts the rebuild
HasWGPeers ==
    /\ boot.pc = "start"
    /\ boot.protocol = "wireguard"
    /\ boot' = [boot EXCEPT !.hasData = IF HasData(wgPeer) THEN "true" ELSE "false",
                            !.ran = ~HasData(wgPeer),
                            !.pc = IF HasData(wgPeer) THEN "sync_query" ELSE "list"]
    /\ UNCHANGED <<dbVars, apiVars, scan, reqVars, ref, chain, ix>>

\* db.HasWGPeers returns an error: warned, no rebuild
HasWGPeersFails ==
    /\ boot.pc = "start"
    /\ boot.protocol = "wireguard"
    /\ boot' = [boot EXCEPT !.hasData = "error", !.pc = "sync_query"]
    /\ UNCHANGED <<dbVars, apiVars, scan, reqVars, ref, chain, ix>>

\* c.ListAllPeerFiles()
ListAllPeerFiles ==
    /\ boot.pc = "list"
    /\ boot' = [boot EXCEPT !.keys = ListKeys(s3),
                            !.reads = @ + 1,
                            !.pc = LoopPc(ListKeys(s3), <<>>)]
    /\ UNCHANGED <<dbVars, apiVars, scan, reqVars, ref, chain, ix>>

\* c.ListAllPeerFiles() fails: RebuildWGPeersFromS3 returns the error
ListAllPeerFilesFails ==
    /\ boot.pc = "list"
    /\ boot' = [boot EXCEPT !.reads = @ + 1, !.rebuildErr = "ListError",
                            !.pc = "sync_query"]
    /\ UNCHANGED <<dbVars, apiVars, scan, reqVars, ref, chain, ix>>

\* c.LoadPeersFromS3(assetName) of the next key
LoadPeerFile ==
    /\ boot.pc = "load"
    /\ LET a == Head(boot.keys)
       IN  boot' = [boot EXCEPT !.asset = a,
                                !.keys = Tail(@),
                                !.peers = s3[a].peers,
                                !.reads = @ + 1,
                                !.pc = LoopPc(Tail(boot.keys), s3[a].peers)]
    /\ UNCHANGED <<dbVars, apiVars, scan, reqVars, ref, chain, ix>>

\* the key does not parse or the load fails: warned, next key
LoadPeerFileFails ==
    /\ boot.pc = "load"
    /\ boot' = [boot EXCEPT !.keys = Tail(@),
                            !.reads = @ + 1,
                            !.skipped = @ \cup {Head(boot.keys)},
                            !.pc = LoopPc(Tail(boot.keys), <<>>)]
    /\ UNCHANGED <<dbVars, apiVars, scan, reqVars, ref, chain, ix>>

\* db.AddWGPeer of the next peer of the file; an error is warned and the
\* loop goes on
AddLoadedPeer ==
    /\ boot.pc = "add"
    /\ LET x == Head(boot.peers)
           row == [assetName |-> boot.asset, pubkey |-> x.pubkey,
                   assignedIP |-> x.assignedIP]
       IN  /\ wgPeer' = InsertPeer(wgPeer, boot.asset, x.pubkey, x.assignedIP)
           /\ boot' = [boot EXCEPT
                  !.peers = Tail(@),
                  !.loaded = IF InsertPeerErr(wgPeer, x.pubkey) = "nil"
                             THEN @ \cup {row} ELSE @,
                  !.pc = LoopPc(boot.keys, Tail(boot.peers))]
    /\ UNCHANGED <<client, wgIPPool, apiVars, scan, reqVars, ref, chain, ix>>

\* db.RebuildIPPool after the loop; failed = TRUE is the store failing
RebuildAfterLoad(failed) ==
    /\ boot.pc = "rebuild"
    /\ LET regions == RebuildRegions(cfgRegion, boot.loaded, client)
       IN  /\ boot' = [boot EXCEPT
                  !.rebuilt = @ \o regions,
                  !.rebuildErr = IF failed THEN "RebuildError" ELSE "nil",
                  !.pc = "sync_query"]
           /\ wgIPPool' = IF failed \/ regions = <<>> THEN wgIPPool
                          ELSE RebuildPools(wgIPPool, wgPeer, client, regions[1])
    /\ UNCHANGED <<client, wgPeer, apiVars, scan, reqVars, ref, chain, ix>>

\* the ledger objects found at startup
LedgerInputs ==
    [Assets ->
        {NoObject} \cup
        {[exists |-> TRUE, peers |-> ps, etag |-> 1] :
            ps \in {<<>>,
                    <<[pubkey |-> 1, assignedIP |-> FormatIP(2)]>>,
                    <<[pubkey |-> 2, assignedIP |-> FormatIP(254)]>>,
                    <<[pubkey |-> 1, assignedIP |-> FormatIP(2)],
                      [pubkey |-> 2, assignedIP |-> FormatIP(3)]>>}}]

\* the client table found at startup: at most one row per asset
ClientInputs ==
    {  {[assetName |-> a, region |-> f[a][1], expiration |-> f[a][2]] :
            a \in {b \in Assets : f[b] # <<>>}} :
       f \in [Assets -> {<<>>, <<"r1", 2>>, <<"r1", 1>>, <<"r2", 2>>}] }

InitBoot ==
    /\ client \in ClientInputs
    /\ wgPeer \in {{}, {[assetName |-> "a1", pubkey |-> 1,
                         assignedIP |-> FormatIP(7)]}}
    /\ wgIPPool \in {{}, {[region |-> cfgRegion, nextIP |-> 9]}}
    /\ nAllocs = 0
    /\ last = NoCall
    /\ scan = NoScan
    /\ s3 \in LedgerInputs
    /\ wg = {}
    /\ pr = [p \in Procs |-> Idle]
    /\ nReqs = 0
    /\ ref = NoReference
    /\ chain = NoChain
    /\ ix = NoIx
    /\ \E proto \in Protocols :
          boot = [NoBoot EXCEPT !.pc = "start", !.protocol = proto,
                                !.start = wgPeer]

NextBoot ==
    \/ StartupSkip
    \/ HasWGPeers
    \/ HasWGPeersFails
    \/ ListAllPeerFiles
    \/ ListAllPeerFilesFails
    \/ LoadPeerFile
    \/ LoadPeerFileFails
    \/ AddLoadedPeer
    \/ \E failed \in BOOLEAN : RebuildAfterLoad(failed)
    \/ SyncStep

SpecBoot == InitBoot /\ [][NextBoot]_vars

(***************************************************************************)
(* main, and then the API serving: AllocateIP for the region of the        *)
(* instance once the startup block is through.                             *)
(***************************************************************************)
\* a.db.AllocateIP(a.cfg.Vpn.Region) by a registration after api.Start
AllocateAfterBoot ==
    /\ boot.pc = "done"
    /\ AllocateIP(cfgRegion)

NextServe ==
    \/ NextBoot
    \/ AllocateAfterBoot

SpecServe == InitBoot /\ [][NextServe]_vars

(***************************************************************************)
(* AllocateIP called again and again for a region without peers, as in     *)
(* TestAllocateIPSequential.                                               *)
(***************************************************************************)
\* the region has no pool row and no peer; another region may hold a peer
\* at the first octet of the pool
InitSeq ==
    /\ \E other \in SUBSET {[assetName |-> "a2", region |-> "r2"]},
          own \in SUBSET {[assetName |-> "a1", region |-> cfgRegion]} :
          /\ client = own \cup other
          /\ wgPeer \in {{}} \cup
                {{[assetName |-> "a2", pubkey |-> 1, assignedIP |-> FormatIP(2)]} :
                    x \in other}
    /\ wgIPPool = {}
    /\ nAllocs = 0
    /\ last = NoCall
    /\ scan = NoScan
    /\ NoRequests
    /\ NoEnv

NextSeq == AllocateIPCall(cfgRegion, MaxSeqAllocs)

SpecSeq == InitSeq /\ [][NextSeq]_vars

(***************************************************************************)
(* Properties of the allocator and of the peer table.                      *)
(***************************************************************************)
\* the hint of a region as the pool table holds it (2 for a row just created)
HintOf(pools, region) ==
    IF \E p \in pools : p.region = region
    THEN (CHOOSE p \in pools : p.region = region).nextIP
    ELSE 2

\* the position of octet o in the cyclic order h, h+1, ..., 254, 2, ..., h-1
CyclicRank(h, o) == IF o >= h THEN o - h ELSE (254 - h + 1) + (o - 2)

\* the first octet of 2..254 not in U in the cyclic order that starts at h
FirstFree(h, U) ==
    CHOOSE o \in (2..254) \ U :
        \A o2 \in (2..254) \ U : CyclicRank(h, o) <= CyclicRank(h, o2)

\* the octet after o, with 254 followed by 2
WrapSucc(o) == IF o = 254 THEN 2 ELSE o + 1

\* C1: AllocateIP(region), run where the region's hint is h and U is the set
\* of final octets of the region's live peers, returns the first octet not in
\* U in the cyclic order h, ..., 254, 2, ..., h-1 and persists the hint as
\* that octet + 1, with 254 followed by 2.
C1_AllocateFirstFree ==
    last.op = "AllocateIP" =>
        LET r == last.region
            h == HintOf(last.pools, r)
            U == UsedOctets(wgPeer, client, r)
        IN  (2..254) \ U # {} =>
              /\ last.err = "nil"
              /\ last.ip = <<Num(10), Num(8), Num(0), Num(FirstFree(h, U))>>
              /\ HintOf(wgIPPool, r) = WrapSucc(FirstFree(h, U))
              /\ \E p \in wgIPPool : p.region = r

\* an allocation that started at hint 254, found 254 and 2 held and returned 3
C1_Witness ==
    /\ last.op = "AllocateIP"
    /\ last.err = "nil"
    /\ HintOf(last.pools, last.region) = 254
    /\ last.ip = FormatIP(3)
    /\ {2, 254} \subseteq UsedOctets(wgPeer, client, last.region)

\* C2: when every octet 2..254 is held, the scan of AllocateIP ends with
\* ErrIPPoolExhausted from every hint, after at most one pass over the 253
\* octets, and never with an octet found.
C2_ExhaustedWhenFull ==
    (2..254) \subseteq scan.usedOctets =>
        /\ scan.iterations <= 253
        /\ scan.pc = "loop" => scan.iterations < 253
        /\ ~scan.found
        /\ scan.pc = "done" =>
            /\ scan.err = "ErrIPPoolExhausted"
            /\ scan.iterations = 253
            /\ scan.currentIP = scan.startIP

\* the scan from hint 254 over a full pool has ended, exhausted
C2_Witness ==
    /\ scan.pc = "done"
    /\ scan.startIP = 254
    /\ scan.usedOctets = 2..254
    /\ scan.err = "ErrIPPoolExhausted"
    /\ scan.iterations = 253

\* C3: an IP returned by a successful AllocateIP has its final octet in
\* 2..254; 0, 1 and 255 are never returned.
C3_AllocatedInRange ==
    (last.op = "AllocateIP" /\ last.err = "nil") =>
        /\ Len(last.ip) = 4
        /\ last.ip[4][1] = "num"
        /\ last.ip[4][2] \in 2..254

\* 254 was returned while a peer row of the region holds the reserved 255
C3_Witness ==
    /\ last.op = "AllocateIP"
    /\ last.err = "nil"
    /\ last.ip = FormatIP(254)
    /\ 255 \in UsedOctets(wgPeer, client, last.region)

\* C4: after a DeallocateIP(region, ip ending in k) without error, k in
\* 2..254 not held by a live peer of the region, the next AllocateIP(region)
\* returns the IP ending in k.
C4_DeallocatedIsNext ==
    (/\ last.op = "AllocateIP"
     /\ last.afterDealloc # 0
     /\ last.afterDealloc \notin UsedOctets(wgPeer, client, last.region)) =>
        /\ last.err = "nil"
        /\ last.ip = FormatIP(last.afterDealloc)

UniquePubkeys ==
    \A r1 \in wgPeer, r2 \in wgPeer : r1.pubkey = r2.pubkey => r1 = r2

\* C10: no two rows of wg_peer share a pubkey, and an AddWGPeer with a pubkey
\* that already exists returns an error and leaves the table unchanged: a
\* call that returns no error has added one row whose pubkey was not there,
\* and a call that returns an error has changed nothing.
C10_PubkeyUnique ==
    /\ []UniquePubkeys
    /\ [][ last'.op = "AddWGPeer" =>
            IF last'.err = "nil"
            THEN \E row \in wgPeer' :
                    /\ wgPeer' = wgPeer \cup {row}
                    /\ \A r \in wgPeer : r.pubkey # row.pubkey
            ELSE wgPeer' = wgPeer ]_vars

\* an AddWGPeer was refused for its pubkey while the table holds two rows
C10_Witness ==
    /\ last.op = "AddWGPeer"
    /\ last.err = "UniqueViolation"
    /\ Cardinality(wgPeer) = 2

(***************************************************************************)
(* Properties of the handlers and of the remote ledger.                    *)
(***************************************************************************)
\* the number of entries of request p's call log whose call is in S
CountEv(p, S) ==
    Cardinality({i \in 1..Len(pr[p].trace) : pr[p].trace[i].ev \in S})

LastEv(p) == pr[p].trace[Len(pr[p].trace)].ev

\* a registration whose ledger write returned an error
RegFailed(p) == pr[p].op = "register" /\ pr[p].err # "nil"

LocalWrites == {"AddWGPeer", "AddWGPeerErr", "AddPeer", "AddPeerErr"}

C5_Compensated ==
    \A p \in Procs : RegFailed(p) =>
        LET t == pr[p].trace
            n == Len(t)
        IN  /\ pr[p].pc \in {"reg_dealloc", "done"}
            /\ CountEv(p, LocalWrites) = 0
            /\ pr[p].pc = "reg_dealloc" => CountEv(p, {"DeallocateIP"}) = 0
            /\ pr[p].pc = "done" =>
                 /\ pr[p].status = 500
                 /\ t[n].ev = "DeallocateIP"
                 /\ CountEv(p, {"DeallocateIP"}) = 1
                 /\ \E i \in 1..(n - 1) :
                        t[i].ev = "AllocateIP" /\ t[i].ip = t[n].ip

\* the step that answers a failed registration
C5_Step ==
    \A p \in Procs :
        (RegFailed(p) /\ pr[p].pc = "reg_dealloc" /\ pr'[p].pc = "done") =>
            /\ HintOf(wgIPPool', cfgRegion) = OctetOf(pr[p].ip)
            /\ wgPeer' = wgPeer
            /\ wg' = wg

\* C5: in the registration write path, when the ledger write fails after an
\* IP was allocated, DeallocateIP is called for exactly that IP and region
\* before the error response, and neither the local peer table nor the
\* endpoint is written for that registration.
C5_DeallocOnLedgerFailure == []C5_Compensated /\ [][C5_Step]_vars

C5_Witness ==
    \E p \in Procs :
        /\ RegFailed(p)
        /\ pr[p].pc = "done"
        /\ pr[p].err = "PutError"
        /\ CountEv(p, {"S3PutConflict"}) = 2
        /\ LastEv(p) = "DeallocateIP"
        /\ HintOf(wgIPPool, cfgRegion) = OctetOf(pr[p].ip)

\* the ledger of request p's client holds the peer of request p
InLedger(objects, p) ==
    \E i \in 1..Len(objects[pr[p].asset].peers) :
        objects[pr[p].asset].peers[i] =
            [pubkey |-> pr[p].pubkey, assignedIP |-> pr[p].ip]

C6_Order ==
    \A p \in Procs : pr[p].op = "register" =>
        LET t == pr[p].trace
        IN  /\ \A i \in 1..Len(t) :
                 t[i].ev \in {"AddWGPeer", "AddWGPeerErr"} =>
                     /\ i > 1
                     /\ t[i - 1].ev = "S3PutOk"
                     /\ t[i - 1].ip = t[i].ip
            /\ pr[p].pc = "reg_addpeer" =>
                 pr[p].err = "nil" /\ LastEv(p) = "S3PutOk"

\* the successful put of a registration wrote that registration's peer, and
\* the row the registration inserts is the peer it wrote
C6_Step ==
    \A p \in Procs : pr[p].op = "register" =>
        /\ (pr[p].pc = "s3_put" /\ pr'[p].pc = "reg_addpeer") => InLedger(s3', p)
        /\ (pr[p].pc = "reg_addpeer" /\ pr'[p].pc = "reg_wgadd") =>
              wgPeer' \subseteq
                  wgPeer \cup {[assetName |-> pr[p].asset,
                                pubkey |-> pr[p].pubkey,
                                assignedIP |-> pr[p].ip]}

Loads == {"S3Load", "S3LoadNone", "S3LoadError"}
Puts == {"S3PutOk", "S3PutConflict", "S3PutError"}

C7_Attempts ==
    \A p \in Procs : pr[p].op \in {"save", "remove"} =>
        LET t == pr[p].trace
            n == Len(t)
        IN  /\ CountEv(p, Loads) <= 3
            /\ CountEv(p, Puts) <= 3
            /\ \A i \in 1..n :
                 /\ t[i].ev \in Puts => i > 1 /\ t[i - 1].ev = "S3Load"
                 /\ (t[i].ev = "S3PutConflict" /\ i < n) => t[i + 1].ev \in Loads
                 /\ (t[i].ev = "S3PutConflict" /\ i = n) =>
                        IF CountEv(p, {"S3PutConflict"}) = 3
                        THEN pr[p].pc = "done" /\ pr[p].err = "RetriesExhausted"
                        ELSE pr[p].pc = "s3_load"
                 /\ t[i].ev \in {"S3LoadError", "S3PutError"} =>
                        /\ i = n
                        /\ pr[p].pc = "done"
                        /\ pr[p].err \in {"LoadError", "PutError"}
            /\ pr[p].err = "RetriesExhausted" =>
                 /\ CountEv(p, {"S3PutConflict"}) = 3
                 /\ CountEv(p, {"S3Load"}) = 3
                 /\ CountEv(p, Puts \ {"S3PutConflict"}) = 0

\* a step of an operation that is not its successful put leaves every object
\* of the ledger as it was
C7_Step ==
    \A p \in Procs :
        (pr'[p] # pr[p] /\ pr'[p].trace # <<>>
            /\ pr'[p].trace[Len(pr'[p].trace)].ev # "S3PutOk") => s3' = s3

\* C7: SavePeerToS3 and RemovePeerFromS3 make at most 3 load-then-write
\* attempts; each conflict is followed by a reload, 3 conflicts in a row end
\* the operation with an error and without a write of its own, and any
\* other error ends it at once.
C7_BoundedRetries == []C7_Attempts /\ [][C7_Step]_vars

C7_Witness ==
    \E p \in Procs :
        /\ pr[p].op \in {"save", "remove"}
        /\ pr[p].pc = "done"
        /\ pr[p].err = "RetriesExhausted"
        /\ CountEv(p, {"S3PutConflict"}) = 3

PubkeysOf(peers) == {peers[i].pubkey : i \in 1..Len(peers)}

\* the ledger keeps its objects, and a successful put changes the peer list
\* the object holds at that moment by this operation's peer only
C8_Step ==
    /\ \A a \in Assets : s3[a].exists => s3'[a].exists
    /\ \A p \in Procs :
         (pr[p].pc = "s3_put" /\ pr'[p].pc = "done" /\ pr'[p].err = "nil") =>
            LET a == pr[p].asset
            IN  /\ s3'[a].exists
                /\ \A i \in 1..Len(s3[a].peers) :
                      s3[a].peers[i].pubkey # pr[p].pubkey =>
                          \E j \in 1..Len(s3'[a].peers) :
                              s3'[a].peers[j] = s3[a].peers[i]
                /\ IF pr[p].op = "save"
                   THEN /\ InLedger(s3', p)
                        /\ PubkeysOf(s3'[a].peers) =
                               PubkeysOf(s3[a].peers) \cup {pr[p].pubkey}
                   ELSE PubkeysOf(s3'[a].peers) =
                            PubkeysOf(s3[a].peers) \ {pr[p].pubkey}

\* C8: RemovePeerFromS3 never deletes a client's ledger object: removing the
\* last peer writes back a record with an empty peer list, and a concurrent
\* SavePeerToS3 for the same client is not lost when both report success.
C8_NeverDeleted == [][C8_Step]_vars

\* a save that lost the race to the removal of the last peer, reloaded and
\* succeeded: its peer is the only one of the object
C8_Witness ==
    \E p, q \in Procs :
        /\ pr[p].op = "remove" /\ pr[p].pc = "done" /\ pr[p].err = "nil"
        /\ LastEv(p) = "S3PutOk"
        /\ pr[q].op = "save" /\ pr[q].pc = "done" /\ pr[q].err = "nil"
        /\ pr[q].pubkey # pr[p].pubkey
        /\ CountEv(q, {"S3PutConflict"}) = 1
        /\ s3["a1"].exists
        /\ s3["a1"].peers =
               <<[pubkey |-> pr[q].pubkey, assignedIP |-> pr[q].ip]>>

C9_Order ==
    \A p \in Procs : pr[p].op = "delete" =>
        LET t == pr[p].trace
            n == Len(t)
        IN  /\ \A i \in 1..n :
                 /\ t[i].ev = "DeleteWGPeer" =>
                        i > 1 /\ t[i - 1].ev \in {"S3PutOk", "S3LoadNone"}
                 /\ t[i].ev = "DeallocateIP" =>
                        i > 1 /\ t[i - 1].ev = "DeleteWGPeer"
                 /\ t[i].ev \in {"RemovePeer", "RemovePeerErr"} =>
                        i > 1 /\ t[i - 1].ev = "DeallocateIP"
            /\ (pr[p].pc = "done" /\ pr[p].status = 200) =>
                 t[n].ev \in {"RemovePeer", "RemovePeerErr"}
            /\ pr[p].err # "nil" =>
                 /\ pr[p].pc = "done"
                 /\ pr[p].status = 500
                 /\ CountEv(p, {"DeleteWGPeer", "DeallocateIP",
                                "RemovePeer", "RemovePeerErr"}) = 0

\* the steps of a removal up to the answer of the ledger write nothing local
C9_Step ==
    \A p \in Procs :
        (pr[p].op = "delete" /\ pr'[p] # pr[p]
            /\ pr[p].pc \in {"del_lookup", "s3_load", "s3_put"}) =>
                UNCHANGED <<wgPeer, wgIPPool, wg>>

C11_DeviceLimit ==
    \A a \in Assets :
        /\ CountWGPeers(a) <= WGMaxDevices
        /\ Len(s3[a].peers) <= WGMaxDevices

(***************************************************************************)
(* Properties of the client table, the reference tables and the indexer.   *)
(***************************************************************************)
OneRowPerAsset ==
    \A r1 \in client, r2 \in client : r1.assetName = r2.assetName => r1 = r2

\* the numbers of the delivered events that carry a datum of client a
ClientEventsOf(a) ==
    {i \in 1..Len(chain.log) :
        chain.log[i].kind = "client" /\ chain.log[i].assetName = a}

\* outside a replay the row of a client is the one of its latest event
LatestWins ==
    Delivering =>
        \A a \in Assets :
            IF ClientEventsOf(a) = {}
            THEN \A r \in client : r.assetName # a
            ELSE \A r \in client :
                    r.assetName = a =>
                        r = ClientRow(chain.log[Max(ClientEventsOf(a))])

\* an AddClient call leaves the row it was given as the only row of that
\* assetName, and the rows of the other clients as they were
C12_Step ==
    last'.op = "AddClient" =>
        /\ last'.row \in client'
        /\ \A r \in client' :
              r.assetName = last'.row.assetName => r = last'.row
        /\ {r \in client' : r.assetName # last'.row.assetName}
               = {r \in client : r.assetName # last'.row.assetName}

\* C12: AddClient is an upsert keyed on assetName: after any sequence of
\* calls there is exactly one row per assetName, holding the expiration,
\* credential and region of the most recent call for that assetName.
C12_UpsertByAssetName == []OneRowPerAsset /\ []LatestWins /\ [][C12_Step]_vars

\* two different datums of one client were handled, the row is the second
C12_Witness ==
    /\ chain.pc = "sync"
    /\ Len(chain.log) = 2
    /\ chain.log[1].kind = "client" /\ chain.log[2].kind = "client"
    /\ chain.log[1].assetName = chain.log[2].assetName
    /\ chain.log[1].expiration # chain.log[2].expiration
    /\ chain.log[1].region # chain.log[2].region
    /\ client = {ClientRow(chain.log[2])}

Durations(rows) == [i \in 1..Len(rows) |->
                        [duration |-> rows[i].duration, price |-> rows[i].price]]
Names(rows) == [i \in 1..Len(rows) |-> rows[i].name]

\* no reference row before the first successful call; after it one row, with
\* the prices and regions of the latest successful call
OneSnapshot ==
    IF chain.refArgs = <<>>
    THEN ref = NoReference
    ELSE /\ ref.rows = {[id |-> referenceId, txId |-> chain.refArgs[1].txId]}
         /\ Durations(ref.prices) = chain.refArgs[1].prices
         /\ Names(ref.regions) = chain.refArgs[1].regions
         /\ \A i \in 1..Len(ref.prices) : ref.prices[i].referenceID = referenceId
         /\ \A i \in 1..Len(ref.regions) : ref.regions[i].referenceID = referenceId

C13_Step ==
    (last'.op = "UpdateReferenceData" /\ last'.err # "nil") => ref' = ref

\* C13: after any number of UpdateReferenceData calls exactly one reference
\* snapshot exists, with the prices and regions of the latest successful
\* call and no row of an earlier one; a failed call leaves the snapshot as
\* it was.
C13_OneSnapshot == []OneSnapshot /\ [][C13_Step]_vars

\* two successful calls with different prices, then a failed one
C13_Witness ==
    /\ last.op = "UpdateReferenceData"
    /\ last.err = "error"
    /\ Len(chain.log) = 2
    /\ chain.log[1].kind = "reference" /\ chain.log[2].kind = "reference"
    /\ Len(chain.log[1].prices) = 2
    /\ Len(chain.log[2].prices) = 1
    /\ chain.log[1].regions # chain.log[2].regions
    /\ Len(ref.prices) = 1

\* C14: after the events e1..en were handled in chain order, delivering a
\* suffix ek..en again in the same order leaves the client table and the
\* reference tables as they were after e1..en.
C14_ReplayIdempotent ==
    chain.pc = "replayed" =>
        client = chain.snapClient /\ ref = chain.snapRef

\* a replay from the first of three events: two datums of one client with
\* different expirations, then a reference datum
C14_Witness ==
    /\ chain.pc = "replayed"
    /\ chain.from = 1
    /\ Len(chain.log) = 3
    /\ chain.log[1].kind = "client" /\ chain.log[2].kind = "client"
    /\ chain.log[1].assetName = chain.log[2].assetName
    /\ chain.log[1].expiration # chain.log[2].expiration
    /\ chain.log[3].kind = "reference"
    /\ Len(chain.log[3].prices) = 2

(***************************************************************************)
(* Properties of the startup sync to the peer-management endpoint.         *)
(***************************************************************************)
\* the pushes of the sync that failed, counted from the record of the pushes
FailedPushes == Cardinality({i \in 1..Len(boot.pushes) : ~boot.pushes[i].ok})

\* the sync went through its loop and returned
SyncReturned == boot.pc = "done" /\ boot.syncErr \in {"nil", "HighFailureRate"}

\* C19: a sync over n >= 1 active peers reports an aggregate failure exactly
\* when the failed pushes are strictly more than n/2 as a fraction, that is
\* when twice their number exceeds n: half of an even n failing is not a
\* failure, and the one push of n = 1 failing is.
C19_MajorityFailure ==
    (SyncReturned /\ boot.n >= 1) =>
        /\ boot.n = Cardinality(ActivePeers(wgPeer, client, cfgRegion))
        /\ (boot.syncErr = "HighFailureRate") <=> (2 * FailedPushes > boot.n)

\* three active peers, two of the pushes failed: the failure is reported
C19_Witness ==
    /\ SyncReturned
    /\ boot.n = 3
    /\ FailedPushes = 2
    /\ boot.syncErr = "HighFailureRate"

\* the peers whose push was attempted, in the order of the attempts
PushedPeers == [i \in 1..Len(boot.pushes) |-> boot.pushes[i].peer]

\* the number of attempts made for peer x
Attempts(x) == Cardinality({i \in 1..Len(boot.pushes) : boot.pushes[i].peer = x})

\* no peer is attempted twice and only active peers of the region are
SyncOnce ==
    \A i \in 1..Len(boot.pushes) :
        /\ boot.pushes[i].peer \in ActivePeers(wgPeer, client, cfgRegion)
        /\ Attempts(boot.pushes[i].peer) = 1

\* once the sync has returned every active peer of the region was attempted
SyncAll ==
    SyncReturned =>
        \A x \in ActivePeers(wgPeer, client, cfgRegion) : Attempts(x) = 1

\* a failed push leaves the other peers to be pushed
C20_Step ==
    (boot.pc = "sync_push" /\ boot'.pc \in {"sync_push", "sync_return"}) =>
        /\ Len(boot'.pushes) = Len(boot.pushes) + 1
        /\ Len(boot'.todo) = Len(boot.todo) - 1

\* C20: the sync attempts the push of every active (non-expired) peer of the
\* configured region exactly once, whatever the earlier pushes gave: a failed
\* push is not retried and does not stop the remaining pushes.
C20_EveryPeerOnce == []SyncOnce /\ []SyncAll /\ [][C20_Step]_vars

\* the first of three pushes failed, the two others were still attempted,
\* and the peer of an expired client or of another region was left out
C20_Witness ==
    /\ SyncReturned
    /\ Len(boot.pushes) = 3
    /\ ~boot.pushes[1].ok
    /\ boot.pushes[3].ok
    /\ \E x \in wgPeer : x \notin ActivePeers(wgPeer, client, cfgRegion)

(***************************************************************************)
(* Properties of the startup rebuild from the ledger.                      *)
(***************************************************************************)
\* the startup is past the check of the peer table
PastCheck == boot.pc # "start"

LoadDone == boot.rebuildErr \in {"nil", "RebuildError"}

\* the number of calls of RebuildIPPool for region r
RebuildCalls(r) ==
    Cardinality({i \in 1..Len(boot.rebuilt) : boot.rebuilt[i] = r})

\* C16 as stated: once the peers of all ledger objects are loaded,
\* RebuildIPPool has been called exactly once for every region that owns at
\* least one of the loaded peers.
C16_RebuildPerOwnerRegion ==
    LoadDone =>
        \A r \in OwnerRegions(boot.loaded, client) : RebuildCalls(r) = 1

\* C16: once the peers of all ledger objects are loaded, RebuildIPPool has
\* been called exactly once, for the configured region, whichever regions own
\* the loaded peers and also when no peer was loaded; it is called for no
\* other region, and not at all before the loading is over or when the
\* listing of the ledger failed.
C16_RebuildConfiguredRegion ==
    /\ LoadDone => (boot.rebuilt = <<cfgRegion>> /\ boot.keys = <<>>
                        /\ boot.peers = <<>>)
    /\ ~LoadDone => boot.rebuilt = <<>>
    /\ boot.rebuildErr = "nil" =>
          HintOf(wgIPPool, cfgRegion) =
              RebuildNextIP(UsedOctets(wgPeer, client, cfgRegion))

\* a peer of a client of another region was loaded, and the one call was for
\* the configured region
C16_Witness ==
    /\ LoadDone
    /\ "r2" \in OwnerRegions(boot.loaded, client)
    /\ cfgRegion \notin OwnerRegions(boot.loaded, client)
    /\ RebuildCalls(cfgRegion) = 1
    /\ RebuildCalls("r2") = 0

(***************************************************************************)
(* Properties of RebuildIPPool.                                            *)
(***************************************************************************)
\* the final octets of the live peers of the region the last call was for
LiveOctets == UsedOctets(wgPeer, client, last.region)

RebuiltHint(U) ==
    IF \E o \in U : o >= 1
    THEN IF Max(U) >= 254 THEN 2 ELSE Max(U) + 1
    ELSE 2

\* the hint after RebuildIPPool, whatever it was before
C17_Hint ==
    last.op = "RebuildIPPool" =>
        /\ \E p \in wgIPPool : p.region = last.region
        /\ HintOf(wgIPPool, last.region) = RebuiltHint(LiveOctets)
        /\ HintOf(wgIPPool, last.region) \in 2..254

\* the AllocateIP that follows a RebuildIPPool of the same region
C17_Step ==
    (/\ last.op = "RebuildIPPool"
     /\ last'.op = "AllocateIP"
     /\ last'.region = last.region) =>
        /\ last'.err = "nil"
        /\ last'.ip = FormatIP(FirstFree(RebuiltHint(LiveOctets), LiveOctets))

C18_SequentialAnyN ==
    last.op = "AllocateIP" =>
        (last.err = "nil" /\ last.ip = FormatIP(nAllocs + 1))

\* C18: AllocateIP called N times in sequence, N at most 253, for a region
\* with no pool row and no peers returns the octets 2, 3, ..., N + 1 in that
\* order; with no peer row added the 254th call starts again at 2.
C18_Sequential ==
    last.op = "AllocateIP" =>
        /\ last.err = "nil"
        /\ nAllocs <= 253 => last.ip = FormatIP(nAllocs + 1)
        /\ last.ip = FormatIP(((nAllocs - 1) % 253) + 2)

\* the 253rd call in sequence has returned the last octet of the pool
C18_Witness ==
    /\ last.op = "AllocateIP"
    /\ nAllocs = 253
    /\ last.ip = FormatIP(254)
    /\ UsedOctets(wgPeer, client, last.region) = {}

(***************************************************************************)
(* Properties of the datum decoders.                                       *)
(***************************************************************************)
\* the blob is no constructor with tag t
TagMismatch(t) == ix.blob[1].kind # "constr" \/ ix.blob[1].tag # t

\* C27: decoding fails with an error value and leaves the result at its zero
\* value whenever the blob is not a constructor with the tag of the type:
\* ReferenceDatum and ReferenceDatumPricing accept only constructor 0,
\* ClientDatum only constructor 1; a reference datum one of whose prices has
\* another tag fails as a whole.
C27_WrongConstructorFails ==
    ix.pc = "decoded" =>
        LET d == ix.decoded[1]
            b == ix.blob[1]
        IN  /\ TagMismatch(1) =>
                (d.client.err # "nil" /\ d.client.value = ZeroClientDatum)
            /\ TagMismatch(0) =>
                (/\ d.reference.err # "nil"
                 /\ d.reference.value = ZeroReferenceDatum
                 /\ d.pricing.err # "nil"
                 /\ d.pricing.value = ZeroPricing)
            /\ (\E i \in 1..Len(b.subs) : b.subs[i].tag # 0) =>
                (d.reference.err # "nil" /\ d.reference.value = ZeroReferenceDatum)
            /\ \A x \in {d.client, d.reference, d.pricing} :
                   x.err \in {"nil", "not a constructor", "invalid constructor",
                              "fields do not decode"}

\* a client-shaped blob under constructor 0 was refused by the client
\* decoder with the error of the tag comparison
C27_Witness ==
    /\ ix.pc = "decoded"
    /\ ix.blob[1].shape = "client"
    /\ ix.blob[1].tag = 0
    /\ ix.decoded[1].client.err = "invalid constructor"

(***************************************************************************)
(* Properties of handleEvent.                                              *)
(***************************************************************************)
\* this step is an iteration of the loop of handleEvent
OutputStep == ix.pc = "loop" /\ Len(ix'.trace) = Len(ix.trace) + 1

\* the output handled by this step
ThisOutput == Head(ix.outs)

ToScript(out) == out.addr = "script"

\* the output has no datum, or its datum does not decode as the given type
NoReferenceDatum(out) ==
    out.datum = <<>> \/ UnmarshalReferenceDatum(out.datum[1]).err # "nil"
NoClientDatum(out) ==
    out.datum = <<>> \/ UnmarshalClientDatum(out.datum[1]).err # "nil"

\* an output to the script address whose datum does not decode for a handler
\* leaves that handler's table as it was; when it decodes for neither, no
\* error is returned and the loop goes on with the next output
C21_Step ==
    (OutputStep /\ ToScript(ThisOutput)) =>
        /\ NoReferenceDatum(ThisOutput) => ref' = ref
        /\ NoClientDatum(ThisOutput) =>
              (client' = client /\ ix'.generated = ix.generated)
        /\ (NoReferenceDatum(ThisOutput) /\ NoClientDatum(ThisOutput)) =>
              /\ ix'.err # "error"
              /\ ix'.outs = Tail(ix.outs)
              /\ ix'.pc = IF Tail(ix.outs) = <<>> THEN "returned" ELSE "loop"

\* an event all of whose outputs were skipped returns nil after the last one
SkippedAll ==
    (/\ ix.pc = "returned"
     /\ ix.trace # <<>>
     /\ \A i \in 1..Len(ix.trace) :
           NoReferenceDatum(ix.trace[i].out) /\ NoClientDatum(ix.trace[i].out)) =>
        (ix.err = "nil" /\ ix.outs = <<>>)

\* C21: for a produced output addressed to the script that has no datum or
\* whose datum fails to decode, the event handler returns no error, leaves
\* the client table and the reference tables unchanged for that output, and
\* still processes the remaining outputs of the same event.
C21_UndecodableSkipped == []SkippedAll /\ [][C21_Step]_vars

\* the first output carried both tokens and bytes that are no datum, and the
\* second output was handled after it and stored a client
C21_Witness ==
    /\ ix.pc = "returned"
    /\ Len(ix.trace) = 2
    /\ ix.trace[1].out.datum = <<Garbage>>
    /\ ix.trace[1].refRes = "undecodable"
    /\ ix.trace[1].clientRes = "undecodable"
    /\ ix.trace[2].clientRes = "generated"

\* handleEventClient is called on the output and its datum decodes
ClientDatumDecoded(out) ==
    /\ ToScript(out)
    /\ ~out.assets.nil
    /\ Len(out.assets.script) > 0
    /\ ~NoClientDatum(out)

\* the upsert and the generation this step makes for a decoded client datum
UpsertThenGenerate(out) ==
    LET v == UnmarshalClientDatum(out.datum[1]).value
        row == [assetName |-> out.assets.script[1],
                expiration |-> v.expiration \div 1000,
                credential |-> v.credential, region |-> v.region]
        res == ix'.trace[Len(ix'.trace)].clientRes
    IN  \/ /\ res = "adderror"         \* the upsert failed: nothing generated
           /\ client' = client
           /\ ix'.generated = ix.generated
           /\ ix'.err = "error"
        \/ /\ res # "adderror"
           /\ client' = (({r \in client : r.assetName # row.assetName}) \cup {row})
           /\ IF v.region = cfgRegion
              THEN /\ Len(ix'.generated) = Len(ix.generated) + 1
                   /\ ix'.generated[Len(ix'.generated)].assetName = row.assetName
              ELSE ix'.generated = ix.generated

\* a decoded client datum is stored and, in the configured region, generated
C22_Step ==
    (OutputStep /\ ClientDatumDecoded(ThisOutput)) => UpsertThenGenerate(ThisOutput)

\* C22 as stated: for every successfully decoded client datum the client
\* table is upserted whatever the decoded region is, and the generation is
\* triggered if and only if the region is the configured one, after the
\* upsert succeeded.
C22_UpsertAnyRegion == [][C22_Step]_vars

\* the same for the outputs whose token under the script hash has a name
C22_NamedStep ==
    (OutputStep /\ ClientDatumDecoded(ThisOutput)) =>
        IF ThisOutput.assets.script[1] # ""
        THEN UpsertThenGenerate(ThisOutput)
        ELSE client' = client /\ ix'.generated = ix.generated /\ ix'.err # "error"

\* nothing is generated for a client that is not in the table with the
\* configured region
GeneratedAreStored ==
    \A i \in 1..Len(ix.generated) :
        /\ ix.generated[i].region = cfgRegion
        /\ \E r \in client : r.assetName = ix.generated[i].assetName

\* C22: for a successfully decoded client datum in an output whose first
\* token under the script hash has a non-empty name, the client table is
\* upserted whatever the decoded region is, and the generation is triggered
\* if and only if the decoded region is the configured one, and only after
\* the upsert succeeded; with an empty token name the output is skipped.
C22_UpsertNamedAnyRegion == []GeneratedAreStored /\ [][C22_NamedStep]_vars

\* a client of another region was stored and nothing was generated for it
C22_Witness ==
    /\ ix.pc = "returned"
    /\ Len(ix.trace) = 1
    /\ ix.trace[1].clientRes = "upserted"
    /\ ix.generated = <<>>
    /\ \E r \in client : r.assetName = "a1" /\ r.region = "r2"

\* the output carries the reference token: policy and asset name
HasReferenceToken(out) ==
    /\ ToScript(out)
    /\ ~out.assets.nil
    /\ \E i \in 1..Len(out.assets.ref) : out.assets.ref[i] = refTokenAssetName

\* C23: a reference-datum decode and a replacement of the reference tables
\* happen only for an output at the script address that carries the
\* reference token, identified by its policy and its asset name.
C23_ReferenceTokenOnly ==
    \A i \in 1..Len(ix.trace) :
        ix.trace[i].refRes # "notcalled" => HasReferenceToken(ix.trace[i].out)

(***************************************************************************)
(* Properties of the cursor table.                                         *)
(***************************************************************************)
\* the rows of the table, as a set
CursorRows(rows) == {rows[i] : i \in 1..Len(rows)}

\* the result of GetCursorPoints: every row once, the most recently added
\* point first, each point added later than the one after it
NewestFirst ==
    ix.pc = "got" =>
        /\ Len(ix.points) = Cardinality(CursorRows(ix.cursor))
        /\ \A i \in 1..Len(ix.points) :
              \E r \in CursorRows(ix.cursor) :
                  r.slot = ix.points[i].slot /\ r.hash = ix.points[i].hash
        /\ ix.newest # <<>> => ix.points[1] = ix.newest[1]
        /\ \A i \in 1..(Len(ix.points) - 1) :
              ix.points[i].hash > ix.points[i + 1].hash

\* AddCursorPoint keeps the row it has just created and changes no row
C25_Step ==
    ix'.nAdds = ix.nAdds + 1 =>
        /\ \A r \in CursorRows(ix'.cursor) :
              \/ r \in CursorRows(ix.cursor)
              \/ (ix'.newest # <<>> /\ r.hash = ix'.newest[1].hash)
        /\ ix'.newest # ix.newest =>
              \E r \in CursorRows(ix'.cursor) :
                  /\ r.slot = ix'.newest[1].slot
                  /\ r.hash = ix'.newest[1].hash
                  /\ \A q \in CursorRows(ix'.cursor) : q.id <= r.id

\* C25: GetCursorPoints returns every retained cursor entry in newest-first
\* order, so the point added by the most recent AddCursorPoint is the first
\* element; pruning never removes that newest entry and never reorders or
\* changes a retained entry.
C25_NewestFirst == []NewestFirst /\ [][C25_Step]_vars

\* a prune has removed the oldest rows and the 51 retained points are
\* returned with the newest first
C25_Witness ==
    /\ ix.pc = "got"
    /\ ix.pruned
    /\ ix.nAdds = 55
    /\ Len(ix.points) = 51
    /\ ix.points[1] = PointAt(55)
    /\ ix.points[51] = PointAt(5)

\* C26: after any number of AddCursorPoint calls the number of points
\* GetCursorPoints returns never exceeds maxCursorEntries plus a small
\* slack (5 here), whatever the prune decisions were.
C26_BoundedRetention ==
    ix.pc = "got" => Len(ix.points) <= maxCursorEntries + 5

(***************************************************************************)
(* Properties of the catch-up log timer.                                   *)
(***************************************************************************)
\* once a status update with TipReached has been processed there is no
\* further catch-up log line and no timer is armed
C24_Step ==
    ix.tipDone => (ix'.logs = ix.logs /\ ix'.arms = ix.arms)

\* C24: the first status update that reports the tip as reached cancels the
\* catch-up log for good: after it has been processed the callback of the
\* timer never runs again and the timer is never rearmed, under every
\* interleaving of the callback with the status update.
C24_TimerCancelled == [][C24_Step]_vars

(***************************************************************************)
(* DeallocateIP on an IP it cannot release.                                *)
(***************************************************************************)
\* ip is not made of four parts, or its final part is not an integer, or
\* the final octet is outside the pool
Malformed(ip) ==
    \/ Len(ip) # 4
    \/ ip[4][1] # "num"
    \/ ip[4][2] \notin MinOctet..MaxOctet

C29_Step ==
    (last'.op = "DeallocateIP" /\ Malformed(last'.ip))
        => (last'.err # "nil" /\ wgIPPool' = wgIPPool)

\* C29: DeallocateIP(region, ip) returns an error and leaves the pool hint of
\* the region unchanged when ip does not consist of four dot-separated
\* parts, when its final part is not an integer, or when its final octet
\* lies outside [2,254].
C29_DeallocateRejects == [][C29_Step]_vars

\* an out-of-range octet was rejected while the region has a pool row
C29_Witness ==
    /\ last.op = "DeallocateIP"
    /\ Malformed(last.ip)
    /\ Len(last.ip) = 4
    /\ last.err = "OutOfRange"
    /\ HasPool(wgIPPool, last.region)

(***************************************************************************)
(* The allocator keeps the regions apart.                                  *)
(***************************************************************************)
\* the rows of the three tables that belong to a region
PoolsOf(pools, region) == {p \in pools : p.region = region}
ClientsOf(clients, region) == {c \in clients : c.region = region}
PeersOf(peers, clients, region) ==
    {x \in peers : \E c \in clients : c.assetName = x.assetName /\ c.region = region}

\* the step is a call of the allocator on a region
AllocatorCall ==
    /\ last' # last
    /\ last'.op \in {"AllocateIP", "DeallocateIP", "RebuildIPPool"}

\* a call on one region leaves the pool rows of the other regions alone
OtherPoolsKept ==
    \A b \in Regions \ {last'.region} :
        PoolsOf(wgIPPool', b) = PoolsOf(wgIPPool, b)

\* what AllocateIP returns is what it returns on the rows of its region alone
OwnRowsDecide ==
    last'.op = "AllocateIP" =>
        LET b == last'.region
            alone == AllocateIPTx(PoolsOf(wgIPPool, b),
                                  PeersOf(wgPeer, client, b),
                                  ClientsOf(client, b), b)
        IN  /\ last'.err = alone.err
            /\ last'.ip = alone.ip

C28_Step == AllocatorCall => (OtherPoolsKept /\ OwnRowsDecide)

\* C28: allocation state is per region: AllocateIP, DeallocateIP and
\* RebuildIPPool on region A leave the pool hint of region B unchanged, and
\* the octet AllocateIP(B) returns does not depend on the peers or the
\* allocations of region A (two fresh regions both start at octet 2).
C28_RegionsApart == [][C28_Step]_vars

\* region r2 is given 10.8.0.2 by its first allocation while a peer of
\* region r1 holds 10.8.0.2 and the pool of r1 has moved on
C28_Witness ==
    /\ last.op = "AllocateIP"
    /\ last.region = "r2"
    /\ last.err = "nil"
    /\ last.ip = FormatIP(MinOctet)
    /\ ~HasPool(last.pools, "r2")
    /\ HasPool(last.pools, "r1")
    /\ PoolRow(last.pools, "r1").nextIP # MinOctet
    /\ \E x \in PeersOf(wgPeer, client, "r1") : x.assignedIP = FormatIP(MinOctet)

(***************************************************************************)
(* One IP, one peer.                                                       *)
(***************************************************************************)
\* the peers the ledger holds, over all the objects of the region
LedgerPeers ==
    UNION {{s3[a].peers[i] : i \in 1..Len(s3[a].peers)} : a \in DOMAIN s3}

\* no two peers with different keys have the same IP
DistinctIPs(peers) ==
    \A x, y \in peers : x.pubkey # y.pubkey => x.assignedIP # y.assignedIP

\* C30: under every interleaving of concurrent registrations and removals
\* in one region, registrations whose ledger write fails and which then
\* release their IP included, no two distinct peers of the region hold the
\* same assigned IP at the same time, in the ledger or in the registry.
C30_NoSharedIP ==
    /\ DistinctIPs(LedgerPeers)
    /\ DistinctIPs(wgPeer)

(***************************************************************************)
(* Concurrent ledger operations lose no update.                            *)
(***************************************************************************)
\* the peer list an operation makes of the list it is applied to
ApplyOp(peers, r) ==
    IF r.op = "save" THEN SavePeers(peers, r.pubkey, r.ip)
    ELSE RemovePeers(peers, r.pubkey)

\* the operations of the callers order[1], order[2], ... applied in turn
RECURSIVE ApplyInOrder(_, _)
ApplyInOrder(peers, order) ==
    IF order = <<>> THEN peers
    ELSE ApplyInOrder(ApplyOp(peers, pr[Head(order)]), Tail(order))

\* the sequential orders of a set of callers
OrdersOf(T) ==
    {f \in [1..Cardinality(T) -> T] : \A i, j \in DOMAIN f : f[i] = f[j] => i = j}

AllReturned == \A p \in DOMAIN pr : pr[p].pc \in {"idle", "done"}
Succeeded == {p \in DOMAIN pr : pr[p].pc = "done" /\ pr[p].err = "nil"}
PutFailed == {p \in DOMAIN pr : pr[p].pc = "done" /\ pr[p].err = "PutError"}

\* the record is what the operations of T leave in some sequential order
SerialOutcome(T) ==
    \E order \in OrdersOf(T) : s3["a1"].peers = ApplyInOrder(<<>>, order)

LedgerKeys(a) == {s3[a].peers[i].pubkey : i \in 1..Len(s3[a].peers)}

\* C32: a pubkey is never recorded in the ledger under two different
\* clients: when two clients register the same pubkey, concurrently or one
\* after the other, at most one of the registrations writes the pubkey to
\* its record and reports success.
C32_PubkeyOneClient ==
    \A a, b \in DOMAIN s3 : a # b => LedgerKeys(a) \cap LedgerKeys(b) = {}

(***************************************************************************)
(* The IP a failed registration gives back.                                *)
(***************************************************************************)
\* the IPs the ledger holds, over all the objects
LedgerIPs == {x.assignedIP : x \in LedgerPeers}

\* a registration that deallocates its IP does so with no entry of the
\* ledger holding that IP
C33_Step ==
    \A p \in DOMAIN pr :
        (pr[p].pc = "reg_dealloc" /\ pr'[p].pc = "done")
            => pr[p].ip \notin LedgerIPs

\* C33: whenever registration deallocates an IP because the ledger write
\* was reported as failed, a timeout or a cancellation whose outcome at the
\* store is unknown included, the ledger holds no peer entry with that IP.
C33_DeallocatedNotInLedger == [][C33_Step]_vars

(***************************************************************************)
(* The range of the hint.                                                  *)
(***************************************************************************)
\* C34: in every state reachable by AllocateIP, DeallocateIP and
\* RebuildIPPool calls, with arbitrary peer IP strings in the registry,
\* the NextIP hint of every pool row lies in [2,254].
C34_HintInRange ==
    \A p \in wgIPPool : p.nextIP \in MinOctet..MaxOctet

\* the last address of the pool was released and allocated again, and the
\* hint has wrapped, while a peer of the region holds the reserved 255
C34_Witness ==
    /\ last.op = "AllocateIP"
    /\ last.err = "nil"
    /\ last.ip = FormatIP(MaxOctet)
    /\ HasPool(wgIPPool, last.region)
    /\ PoolRow(wgIPPool, last.region).nextIP = MinOctet
    /\ MaxOctet + 1 \in UsedOctets(wgPeer, client, last.region)

(***************************************************************************)
(* A failed AllocateIP changes nothing.                                    *)
(***************************************************************************)
\* the step is the return of AllocateIP with an error
AllocateFails ==
    /\ scan.pc # "returned"
    /\ scan'.pc = "returned"
    /\ last'.err # "nil"

C35_Step ==
    AllocateFails =>
        (wgIPPool' = wgIPPool /\ wgPeer' = wgPeer /\ client' = client)

\* C35: an AllocateIP call that returns an error, pool exhausted or a store
\* failure, leaves the durable state exactly as it was before the call: the
\* hint of the region is not advanced, no pool row is left created and no
\* peer row is changed.
C35_FailedAllocateIsNoOp == [][C35_Step]_vars

\* the pool of a region without a pool row was found exhausted: the row the
\* transaction created is gone
C35_Witness ==
    /\ scan.pc = "returned"
    /\ last.err = "ErrIPPoolExhausted"
    /\ HasPool(scan.pools, scan.region)
    /\ ~HasPool(wgIPPool, scan.region)
    /\ scan.iterations = MaxOctet - MinOctet + 1

(***************************************************************************)
(* The cursor follows the status updates.                                  *)
(***************************************************************************)
\* the newest row of the table holds the position p
NewestIs(rows, p) ==
    /\ rows # <<>>
    /\ rows[Len(rows)].slot = p.slot
    /\ rows[Len(rows)].hash = p.hash

DeliveryOrder ==
    \A i \in 1..(Len(ix.cursor) - 1) :
        /\ ix.cursor[i].id < ix.cursor[i + 1].id
        /\ ix.cursor[i].slot < ix.cursor[i + 1].slot

\* rows is what is left of old after some of its oldest rows were deleted
OldestDropped(old, rows) ==
    \E k \in 0..Len(old) : rows = SubSeq(old, k + 1, Len(old))

\* an update whose insert succeeds appends one row with its position and
\* that is the newest; an update whose insert fails leaves the table alone
C36_Step ==
    ix'.nStatus = ix.nStatus + 1 =>
        IF ix'.err = "Create"
        THEN ix'.cursor = ix.cursor
        ELSE /\ NewestIs(ix'.cursor, PointAt(ix'.nStatus))
             /\ OldestDropped(ix.cursor, SubSeq(ix'.cursor, 1, Len(ix'.cursor) - 1))

OwnKey(p) ==
    \E r \in wgPeer : r.pubkey = pr[p].pubkey /\ r.assetName = pr[p].asset

\* request p gets the answer of its lookup
LookupAnswered(p) == pr[p].pc = "reg_lookup" /\ pr'[p].pc # "reg_lookup"

C37_Step ==
    \A p \in DOMAIN pr :
        (LookupAnswered(p) /\ OwnKey(p)) =>
            /\ pr'[p].pc = "done"
            /\ pr'[p].status = 200
            /\ pr'[p].ip = PeerByPubkey(pr[p].pubkey).assignedIP
            /\ UNCHANGED <<wgIPPool, wgPeer, s3, wg>>
            /\ CountWGPeers(pr[p].asset)' = CountWGPeers(pr[p].asset)

\* C37: a registration by a client for a pubkey that the registry already
\* holds for that same client returns the existing assigned IP of the peer
\* and changes nothing: no IP is allocated, the pool hint is unchanged, no
\* ledger write is made and the device count of the client stays the same.
C37_ReRegisterIsNoOp == [][C37_Step]_vars

\* a second registration of a stored key was answered with the stored IP
C37_Witness ==
    \E p \in DOMAIN pr :
        /\ pr[p].op = "register"
        /\ pr[p].pc = "done"
        /\ pr[p].status = 200
        /\ Len(pr[p].trace) = 1
        /\ OwnKey(p)
        /\ pr[p].ip = PeerByPubkey(pr[p].pubkey).assignedIP
        /\ s3[pr[p].asset].exists

(***************************************************************************)
(* Where the chain sync starts.                                            *)
(***************************************************************************)
\* seq holds the position of every row of the table, the newest first
AllRowsNewestFirst(seq) ==
    /\ Len(seq) = Len(ix.cursor)
    /\ \A i \in 1..Len(seq) :
          /\ seq[i].slot = ix.cursor[Len(ix.cursor) + 1 - i].slot
          /\ seq[i].hash = ix.cursor[Len(ix.cursor) + 1 - i].hash

ConfiguredPoint == <<[slot |-> ix.cfg.slot, hash |-> ix.cfg.hash]>>

\* C38: on Start, when the cursor table holds at least one point the
\* chain-sync intersection is seeded with all retained points in newest-first
\* order and the configured intersect point is ignored; the configured
\* point is used only when the table is empty.
C38_IntersectFromCursor ==
    (ix.pc = "seeded" /\ ix.err = "none") =>
        IF ix.cursor # <<>>
        THEN AllRowsNewestFirst(ix.intersect)
        ELSE ix.intersect = IF ix.cfg.given /\ ix.cfg.slot > 0
                            THEN ConfiguredPoint ELSE <<>>

\* Start with a configured point and a pruned table of 51 rows
C38_Witness ==
    /\ ix.pc = "seeded"
    /\ ix.cfg.given /\ ix.cfg.slot > 0
    /\ Len(ix.cursor) = maxCursorEntries + 1
    /\ ix.cursor[1].id > 1
    /\ Len(ix.intersect) = maxCursorEntries + 1
    /\ ix.intersect[1].slot = ix.cursor[Len(ix.cursor)].slot

(***************************************************************************)
(* The registry after RebuildWGPeersFromS3.                                *)
(***************************************************************************)
\* the loop of RebuildWGPeersFromS3 has run to its end
RebuildLoopDone ==
    /\ boot.ran
    /\ boot.pc \notin {"list", "load", "add"}
    /\ boot.rebuildErr # "ListError"

\* the objects that were loaded, and their peer entries as registry rows
LoadedAssets == {a \in DOMAIN s3 : s3[a].exists /\ a \notin boot.skipped}
LoadedEntries ==
    UNION {{[assetName |-> a, pubkey |-> s3[a].peers[i].pubkey,
             assignedIP |-> s3[a].peers[i].assignedIP] :
                i \in 1..Len(s3[a].peers)} : a \in LoadedAssets}

\* C39: after RebuildWGPeersFromS3 has run on an empty registry, the
\* registry holds one row (assetName, pubkey, assignedIP) for every peer
\* entry of every ledger object that could be loaded and nothing else; an
\* object that fails to load or a peer that fails to insert is skipped
\* without the remaining objects and peers being given up.
C39_RegistryIsLedger ==
    RebuildLoopDone =>
        /\ wgPeer \subseteq LoadedEntries
        /\ \A e \in LoadedEntries :
              \/ e \in wgPeer
              \/ \E r \in wgPeer : r.pubkey = e.pubkey /\ r # e
        /\ boot.keys = <<>>
        /\ boot.reads = 1 + Cardinality({a \in DOMAIN s3 : s3[a].exists})

\* the first object failed to load and the two peers of the second are in
\* the registry
C39_Witness ==
    /\ RebuildLoopDone
    /\ boot.skipped = {"a1"}
    /\ s3["a1"].peers # <<>>
    /\ Len(s3["a2"].peers) = 2
    /\ Cardinality(wgPeer) = 2

(***************************************************************************)
(* Allocation after a cold start.                                          *)
(***************************************************************************)
\* C40: after a cold-start RebuildWGPeersFromS3, AllocateIP(region) never
\* returns an IP that a rebuilt peer row already holds, also while the
\* client row of the owner has not yet been indexed again from the chain.
C40_FreshAfterColdStart ==
    (boot.ran /\ last.op = "AllocateIP" /\ last.err = "nil") =>
        \A r \in wgPeer : r.assignedIP # last.ip

====
